---- MODULE Spec2Model ----
(***************************************************************************)
(* Control plane of the Lava runtime: the Runtime (Controller), the        *)
(* Runtime Services (one per synchronization domain) and the Python        *)
(* ProcessModels (Process Actors), coordinating over FIFO channels.        *)
(*                                                                         *)
(* The Runtime is modelled from runtime/runtime.py, the Process Actors     *)
(* from core/model/py/model.py, the tokens from                            *)
(* runtime/mgmt_token_enums.py.  The Runtime Service and the channel       *)
(* ports are modelled from sections 4.2 and 4.4 of the specification.      *)
(***************************************************************************)
EXTENDS Integers, Sequences, FiniteSets, TLC

(***************************************************************************)
(* Bounds of the model.                                                    *)
(***************************************************************************)
\* Largest num_steps of one RunSteps condition.
MaxNumSteps == 2
\* Number of calls the user makes on the Runtime over a behaviour.
MaxCalls == 3
\* Number of execution steps the user asks for over a behaviour.
MaxTotalSteps == 2
\* Capacity of every channel (a bounded FIFO; send blocks when it is full).
ChanCap == 2

(***************************************************************************)
(* Tokens (mgmt_token_enums.py, PyLoihiProcessModel.Phase).                *)
(***************************************************************************)
STOP == -1
PAUSE == -2
DONE == 0
TERMINATED == -1
PAUSED == -2
GET == 0
SET == 1
SPK == 1
PRE_MGMT == 2
LRN == 3
POST_MGMT == 4
HOST == 5

(***************************************************************************)
(* The executable: two synchronization domains, the first with two Process *)
(* Actors, the second with one.  Every actor owns one Var; actor 2 also    *)
(* owns a VarPort.                                                          *)
(***************************************************************************)
Services == {1, 2}
Actors == {1, 2, 3}
ActorSeq(s) == IF s = 1 THEN <<1, 2>> ELSE <<3>>
ActorsOf(s) == {ActorSeq(s)[i] : i \in 1..Len(ActorSeq(s))}
ServiceOf(a) == CHOOSE s \in Services : a \in ActorsOf(s)
NumServices == Cardinality(Services)
HasVarPorts(a) == a = 2
\* The ProcessModel class every actor of a domain is built from.
ModelKinds == {"PyLoihi", "AbstractPy"}

VARIABLES
    \* Runtime (runtime.py)
    is_initialized, is_started, is_running, current_ts, num_steps,
    messaging_infrastructure, ports_joined,
    \* position of the Runtime inside the call in progress
    rtPc, rtIdx, rtNum, rtBuf,
    \* the call in progress or last finished, and how it ended
    call, rtResult,
    \* per call: the tokens sent on each command port, the number of responses
    \* read from each ack port, and the last response read from each ack port
    sent, rcvd, resp,
    \* Runtime <-> Service channels
    runtime_to_service_cmd, service_to_runtime_ack, runtime_to_service_req,
    service_to_runtime_data, runtime_to_service_data,
    \* Service <-> Process Actor channels
    service_to_process_cmd, process_to_service_ack, service_to_process_req,
    process_to_service_data, service_to_process_data,
    \* Runtime Service
    svcPc, svcIdx, svcSteps, svcPhase, svcReq,
    \* Process Actor (model.py)
    kind, actPc, actIdx, actNum, actTs, var,
    \* per actor: phase commands accepted, DONE sent, last phase accepted,
    \* PAUSE/HOST commands accepted, PAUSED sent
    nPhaseRecv, nDoneSent, lastPhase, nPauseRecv, nPausedSent,
    \* per actor: TERMINATED sent, and the ports joined
    nTerminatedSent, act_ports_joined,
    \* per actor: the callbacks invoked so far in the iteration of the loop
    \* of _run that accepted its last command
    callbacks,
    \* user bookkeeping: calls made and execution steps asked for so far
    nCalls, stepsIssued,
    \* Vars (variable.py): the Var objects constructed, the registry and the
    \* id counter of the VarServer, the register calls since the last reset,
    \* whether the processes have a runtime, and the values that runtime holds
    objs, varserver_vars, next_id, nRegistered, proc_runtime, store, result,
    \* Ports (ports.py)
    in_connections, out_connections

rtVars == <<is_initialized, is_started, is_running, current_ts, num_steps,
            messaging_infrastructure, ports_joined, rtPc, rtIdx, rtNum,
            rtBuf, call, rtResult,
            sent, rcvd, resp, nCalls, stepsIssued>>
rtChans == <<runtime_to_service_cmd, service_to_runtime_ack,
             runtime_to_service_req, service_to_runtime_data,
             runtime_to_service_data>>
procChans == <<service_to_process_cmd, process_to_service_ack,
               service_to_process_req, process_to_service_data,
               service_to_process_data>>
svcVars == <<svcPc, svcIdx, svcSteps, svcPhase, svcReq>>
actVars == <<kind, actPc, actIdx, actNum, actTs, var>>
actHist == <<nPhaseRecv, nDoneSent, lastPhase, nPauseRecv, nPausedSent,
             nTerminatedSent, act_ports_joined, callbacks>>
varVars == <<objs, varserver_vars, next_id, nRegistered, proc_runtime, store,
            result>>
portVars == <<in_connections, out_connections>>
buildVars == <<varVars, portVars>>
ctlVars == <<rtVars, rtChans, procChans, svcVars, actVars, actHist>>
vars == <<ctlVars, buildVars>>

(***************************************************************************)
(* Channel ports (specification 4.4): bounded FIFO, blocking send and      *)
(* recv, non-blocking probe.                                               *)
(***************************************************************************)
CanSend(ch, i) == Len(ch[i]) < ChanCap
Send(ch, i, t) == [ch EXCEPT ![i] = Append(@, t)]
Probe(ch, i) == Len(ch[i]) > 0
Peek(ch, i) == Head(ch[i])
Recv(ch, i) == [ch EXCEPT ![i] = Tail(@)]
Empty(S) == [x \in S |-> <<>>]

(***************************************************************************)
(* Run conditions (run_conditions: RunSteps, RunContinuous).               *)
(***************************************************************************)
RunSteps(n, blocking) == [type |-> "RunSteps", num_steps |-> n, blocking |-> blocking]
RunContinuous == [type |-> "RunContinuous", num_steps |-> 0, blocking |-> FALSE]
RunConditions ==
    {RunSteps(n, b) : n \in 1..MaxNumSteps, b \in BOOLEAN} \cup {RunContinuous}

\* num_steps before the first RunSteps: the attribute does not exist yet.
NoNumSteps == -1
NoResp == -9
Zero(S) == [x \in S |-> 0]

\* The record of a call: its arguments, the Runtime's attributes when it was
\* made, and the call made before it.
NoVar == 0
NoCond == [type |-> "none", num_steps |-> 0, blocking |-> FALSE]
\* No command of the Runtime and no response of a Service is outstanding.
Settled ==
    \A s \in Services :
        /\ runtime_to_service_cmd[s] = <<>>
        /\ service_to_runtime_ack[s] = <<>>
        /\ svcPc[s] = "await"
\* idx = None. An index is an array of positions counted from 0; the empty
\* array stands for None, which "if idx:" (runtime.py 329) treats alike.
NoIdx == <<>>
NewCall(op, cond, v) ==
    [op |-> op, cond |-> cond, var_id |-> v, value |-> <<>>, idx |-> NoIdx,
     ts0 |-> current_ts,
     started0 |-> is_started, running0 |-> is_running, settled0 |-> Settled,
     prev |-> [op |-> call.op, cond |-> call.cond, var_id |-> call.var_id,
               buf |-> rtBuf, idx |-> call.idx,
               running0 |-> call.running0, settled0 |-> call.settled0]]
NoCall ==
    [op |-> "none", cond |-> NoCond, var_id |-> NoVar, value |-> <<>>,
     idx |-> NoIdx, ts0 |-> 0,
     started0 |-> FALSE, running0 |-> FALSE, settled0 |-> TRUE,
     prev |-> [op |-> "none", cond |-> NoCond, var_id |-> NoVar,
               buf |-> <<>>, idx |-> NoIdx,
               running0 |-> FALSE, settled0 |-> TRUE]]

(***************************************************************************)
(* Runtime (runtime.py).  A call of the user enters at rtPc = "idle";      *)
(* every blocking send or recv of the call is one step.  A call ends back  *)
(* at "idle" with rtResult "returned" or "raised".                         *)
(***************************************************************************)
\* What every entry into a call resets: the per-call history. buf is the
\* value the call is given, which is the buffer it starts with, and idx
\* the index it is given.
EnterWith(op, cond, v, buf, idx) ==
    /\ rtPc = "idle"
    /\ call' = [NewCall(op, cond, v) EXCEPT !.value = buf, !.idx = idx]
    /\ sent' = Empty(Services)
    /\ rcvd' = Zero(Services)
    /\ resp' = [s \in Services |-> NoResp]
    /\ rtNum' = 0
    /\ rtBuf' = buf

Enter(op, cond, v) == EnterWith(op, cond, v, <<>>, NoIdx)

Return(res) ==
    /\ rtPc' = "idle"
    /\ rtIdx' = 0
    /\ rtResult' = res

Goto(pc) ==
    /\ rtPc' = pc
    /\ rtIdx' = 1
    /\ rtResult' = "pending"

\* The user's bound: the calls made after initialize.
Counted ==
    /\ nCalls < MaxCalls
    /\ nCalls' = nCalls + 1

\* The user's bound on the steps of the RunSteps conditions together.
CountedSteps(cond) ==
    /\ stepsIssued + cond.num_steps <= MaxTotalSteps
    /\ stepsIssued' = stepsIssued + cond.num_steps

\* Runtime.initialize: builds the message infrastructure, the channels, the
\* actors and the services, and starts the Runtime's ports.
Initialize ==
    /\ Enter("initialize", NoCond, NoVar)
    /\ ~is_initialized
    /\ messaging_infrastructure' = "started"
    /\ is_initialized' = TRUE
    /\ Return("returned")
    /\ UNCHANGED <<is_started, is_running, current_ts, num_steps, ports_joined,
                   nCalls, stepsIssued,
                   rtChans, procChans, svcVars, actVars, actHist, buildVars>>

\* Runtime._run once self._is_started holds (lines 222-243), up to the
\* first send.
RunEnter(cond) ==
    /\ is_running' = TRUE
    /\ IF cond.type = "RunSteps"
       THEN /\ num_steps' = cond.num_steps
            /\ Goto("run_send")
       ELSE /\ UNCHANGED num_steps
            /\ Return("returned")

\* A start that does not look at _is_initialized.
StartUnguarded(cond) ==
    /\ Enter("start", cond, NoVar)
    /\ Counted
    /\ CountedSteps(cond)
    /\ is_started' = TRUE
    /\ RunEnter(cond)
    /\ UNCHANGED <<is_initialized, current_ts, messaging_infrastructure,
                   ports_joined, rtChans, procChans, svcVars, actVars, actHist,
                   buildVars>>

\* Runtime.start(run_condition)
Start(cond) ==
    /\ Enter("start", cond, NoVar)
    /\ Counted
    /\ CountedSteps(cond)
    /\ IF is_initialized
       THEN /\ is_started' = TRUE
            /\ RunEnter(cond)
       ELSE \* "Runtime not initialized yet."
            /\ Return("returned")
            /\ UNCHANGED <<is_started, is_running, num_steps>>
    /\ UNCHANGED <<is_initialized, current_ts, messaging_infrastructure,
                   ports_joined, rtChans, procChans, svcVars, actVars, actHist,
                   buildVars>>

\* One iteration of a "for send_port in self.runtime_to_service_cmd" loop:
\* send token on port rtIdx; after the last port go on with `after`.
SendLoop(token, after) ==
    /\ CanSend(runtime_to_service_cmd, rtIdx)
    /\ runtime_to_service_cmd' = Send(runtime_to_service_cmd, rtIdx, token)
    /\ sent' = [sent EXCEPT ![rtIdx] = Append(@, token)]
    /\ IF rtIdx < NumServices
       THEN /\ rtIdx' = rtIdx + 1
            /\ UNCHANGED <<rtPc, rtResult>>
       ELSE after

\* One iteration of a "for recv_port in self.service_to_runtime_ack" loop:
\* a response other than `expected` raises RuntimeError; after the last
\* port go on with `after`. `raised` is what the raise leaves behind.
RecvLoop(expected, after, raised) ==
    /\ Probe(service_to_runtime_ack, rtIdx)
    /\ service_to_runtime_ack' = Recv(service_to_runtime_ack, rtIdx)
    /\ rcvd' = [rcvd EXCEPT ![rtIdx] = @ + 1]
    /\ resp' = [resp EXCEPT ![rtIdx] = Peek(service_to_runtime_ack, rtIdx)]
    /\ IF Peek(service_to_runtime_ack, rtIdx) # expected
       THEN raised
       ELSE IF rtIdx < NumServices
            THEN /\ rtIdx' = rtIdx + 1
                 /\ UNCHANGED <<rtPc, rtResult>>
                 /\ UNCHANGED <<is_started, is_running, current_ts,
                                messaging_infrastructure, ports_joined>>
            ELSE after

\* A _run that awaits the acknowledgements whatever run_condition.blocking is.
RunSendBlocking ==
    /\ rtPc = "run_send"
    /\ SendLoop(num_steps, Goto("run_recv"))
    /\ UNCHANGED <<is_initialized, is_started, is_running, current_ts,
                   num_steps, messaging_infrastructure, ports_joined, rtNum,
                   rtBuf, call, rcvd, resp, nCalls, stepsIssued,
                   service_to_runtime_ack, runtime_to_service_req,
                   service_to_runtime_data, runtime_to_service_data,
                   procChans, svcVars, actVars, actHist, buildVars>>

\* Lines 225-226 and the branch on run_condition.blocking
RunSend ==
    /\ rtPc = "run_send"
    /\ SendLoop(num_steps,
                IF call.cond.blocking
                THEN Goto("run_recv")
                ELSE Return("returned"))
    /\ UNCHANGED <<is_initialized, is_started, is_running, current_ts,
                   num_steps, messaging_infrastructure, ports_joined, rtNum,
                   rtBuf, call, rcvd, resp, nCalls, stepsIssued,
                   service_to_runtime_ack, runtime_to_service_req,
                   service_to_runtime_data, runtime_to_service_data,
                   procChans, svcVars, actVars, actHist, buildVars>>

\* A time accounting that forgets current_ts.
RunFinishNoTs ==
    IF num_steps = NoNumSteps
    THEN /\ Return("raised")
         /\ UNCHANGED <<current_ts, is_running>>
    ELSE /\ UNCHANGED current_ts
         /\ is_running' = FALSE
         /\ Return("returned")

\* Lines 237-238 and 253-254: the time accounting after the DONE of every
\* Service. wait() after a RunContinuous alone finds no num_steps attribute.
RunFinish ==
    IF num_steps = NoNumSteps
    THEN /\ Return("raised")
         /\ UNCHANGED <<current_ts, is_running>>
    ELSE /\ current_ts' = current_ts + num_steps
         /\ is_running' = FALSE
         /\ Return("returned")

RaiseRuntimeError ==
    /\ Return("raised")
    /\ UNCHANGED <<is_started, is_running, current_ts,
                   messaging_infrastructure, ports_joined>>

\* Lines 228-231 (blocking run) 
RunRecv ==
    /\ rtPc = "run_recv"
    /\ RecvLoop(DONE,
                RunFinish /\ UNCHANGED <<is_started, messaging_infrastructure,
                                         ports_joined>>,
                RaiseRuntimeError)
    /\ UNCHANGED <<is_initialized, num_steps, rtNum, rtBuf, call, sent,
                   nCalls, stepsIssued, runtime_to_service_cmd, runtime_to_service_req,
                   service_to_runtime_data, runtime_to_service_data,
                   procChans, svcVars, actVars, actHist, buildVars>>

\* Runtime.wait
Wait ==
    /\ Enter("wait", NoCond, NoVar)
    /\ Counted
    /\ IF is_running
       THEN Goto("wait_recv")
       ELSE Return("returned")
    /\ UNCHANGED <<is_initialized, is_started, is_running, current_ts,
                   num_steps, messaging_infrastructure, ports_joined,
                   stepsIssued, rtChans, procChans, svcVars, actVars, actHist,
                   buildVars>>

WaitRecv ==
    /\ rtPc = "wait_recv"
    /\ RecvLoop(DONE,
                RunFinish /\ UNCHANGED <<is_started, messaging_infrastructure,
                                         ports_joined>>,
                RaiseRuntimeError)
    /\ UNCHANGED <<is_initialized, num_steps, rtNum, rtBuf, call, sent,
                   nCalls, stepsIssued, runtime_to_service_cmd, runtime_to_service_req,
                   service_to_runtime_data, runtime_to_service_data,
                   procChans, svcVars, actVars, actHist, buildVars>>

\* A pause that does not test _is_running.
PauseUnguarded ==
    /\ Enter("pause", NoCond, NoVar)
    /\ Counted
    /\ Goto("pause_send")
    /\ UNCHANGED <<is_initialized, is_started, is_running, current_ts,
                   num_steps, messaging_infrastructure, ports_joined,
                   stepsIssued, rtChans, procChans, svcVars, actVars, actHist,
                   buildVars>>

\* Runtime.pause
Pause ==
    /\ Enter("pause", NoCond, NoVar)
    /\ Counted
    /\ IF is_running
       THEN Goto("pause_send")
       ELSE Return("returned")
    /\ UNCHANGED <<is_initialized, is_started, is_running, current_ts,
                   num_steps, messaging_infrastructure, ports_joined,
                   stepsIssued, rtChans, procChans, svcVars, actVars, actHist,
                   buildVars>>

PauseSend ==
    /\ rtPc = "pause_send"
    /\ SendLoop(PAUSE, Goto("pause_recv"))
    /\ UNCHANGED <<is_initialized, is_started, is_running, current_ts,
                   num_steps, messaging_infrastructure, ports_joined, rtNum,
                   rtBuf, call, rcvd, resp, nCalls, stepsIssued,
                   service_to_runtime_ack, runtime_to_service_req,
                   service_to_runtime_data, runtime_to_service_data,
                   procChans, svcVars, actVars, actHist, buildVars>>

\* A pause that leaves _is_running set.
PauseFinishStillRunning ==
    /\ UNCHANGED is_running
    /\ Return("returned")

\* Line 264
PauseFinish ==
    /\ is_running' = FALSE
    /\ Return("returned")

PauseRecv ==
    /\ rtPc = "pause_recv"
    /\ RecvLoop(PAUSED,
                PauseFinish /\ UNCHANGED <<is_started, current_ts,
                                           messaging_infrastructure,
                                           ports_joined>>,
                RaiseRuntimeError)
    /\ UNCHANGED <<is_initialized, num_steps, rtNum, rtBuf, call, sent,
                   nCalls, stepsIssued, runtime_to_service_cmd, runtime_to_service_req,
                   service_to_runtime_data, runtime_to_service_data,
                   procChans, svcVars, actVars, actHist, buildVars>>

\* The lists of ports the Runtime owns (lines 61-65).
RuntimePorts ==
    {"runtime_to_service_cmd", "service_to_runtime_ack",
     "runtime_to_service_req", "service_to_runtime_data",
     "runtime_to_service_data"}

\* A join that forgets the request and data ports.
JoinCmdAckOnly ==
    ports_joined' = {"runtime_to_service_cmd", "service_to_runtime_ack"}

\* Runtime.join: joins every port the Runtime owns.
Join ==
    ports_joined' = RuntimePorts

\* MessageInfrastructure.stop: stopping an infrastructure already stopped
\* changes nothing.
MessageInfrastructureStop ==
    messaging_infrastructure' = "stopped"

\* Lines 276-278, then the finally clause of line 283
StopFinish ==
    /\ Join
    /\ is_running' = FALSE
    /\ is_started' = FALSE
    /\ MessageInfrastructureStop
    /\ Return("returned")

\* A stop that does not look at _is_started.
StopUnguarded ==
    /\ Enter("stop", NoCond, NoVar)
    /\ Counted
    /\ Goto("stop_send")
    /\ UNCHANGED <<is_initialized, is_started, is_running, current_ts,
                   num_steps, messaging_infrastructure, ports_joined,
                   stepsIssued, rtChans, procChans, svcVars, actVars, actHist,
                   buildVars>>

\* Runtime.stop
Stop ==
    /\ Enter("stop", NoCond, NoVar)
    /\ Counted
    /\ IF is_started
       THEN /\ Goto("stop_send")
            /\ UNCHANGED messaging_infrastructure
       ELSE \* "Runtime not started yet.", then the finally clause: a
            \* Runtime never initialized has no message infrastructure.
               IF messaging_infrastructure = "none"
               THEN /\ Return("raised")
                    /\ UNCHANGED messaging_infrastructure
               ELSE /\ Return("returned")
                    /\ MessageInfrastructureStop
    /\ UNCHANGED <<is_initialized, is_started, is_running, current_ts,
                   num_steps, ports_joined, stepsIssued, rtChans, procChans,
                   svcVars, actVars, actHist, buildVars>>

StopSend ==
    /\ rtPc = "stop_send"
    /\ SendLoop(STOP, Goto("stop_recv"))
    /\ UNCHANGED <<is_initialized, is_started, is_running, current_ts,
                   num_steps, messaging_infrastructure, ports_joined, rtNum,
                   rtBuf, call, rcvd, resp, nCalls, stepsIssued,
                   service_to_runtime_ack, runtime_to_service_req,
                   service_to_runtime_data, runtime_to_service_data,
                   procChans, svcVars, actVars, actHist, buildVars>>

StopRecv ==
    /\ rtPc = "stop_recv"
    /\ RecvLoop(TERMINATED,
                StopFinish /\ UNCHANGED current_ts,
                /\ Return("raised")
                /\ MessageInfrastructureStop
                /\ UNCHANGED <<is_started, is_running, current_ts,
                               ports_joined>>)
    /\ UNCHANGED <<is_initialized, num_steps, rtNum, rtBuf, call, sent,
                   nCalls, stepsIssued, runtime_to_service_cmd, runtime_to_service_req,
                   service_to_runtime_data, runtime_to_service_data,
                   procChans, svcVars, actVars, actHist, buildVars>>

\* node_config.exec_vars[var_id]: every actor owns the Var of its own id.
VarIds == Actors

\* How the ProcessModel of an actor holds its Var: actor 1 as an array of
\* two items, actor 2 as a Python int, actor 3 as a numpy integer. A Var is
\* the type of the attribute and its items in iteration order.
VarInit ==
    [a \in Actors |->
        CASE a = 1 -> [type |-> "ndarray", val |-> <<1, 1>>]
          [] a = 2 -> [type |-> "int", val |-> <<1>>]
          [] OTHER -> [type |-> "np.integer", val |-> <<1>>]]

\* ev.shape: the number of items of the Var
NumItems(v) == Len(VarInit[v].val)

\* The values the user sets: arrays of the Var's full shape.
SetValues == {0, 2}
ValuesFor(v) == [1..NumItems(v) -> SetValues]

\* set_var compares neither the shape of the value nor that of value[idx]
\* with the shape of the Var: the values of the shape of any of the Vars.
AnyValues == UNION {ValuesFor(w) : w \in VarIds}

\* The indices the user passes: None, and arrays of one position. (An
\* array of several positions has no truth value: line 329 raises.)
Indices == {NoIdx, <<0>>, <<1>>}

\* "if idx:", line 329: the truth value of None, of an empty array and of
\* an array of one item.
Truth(idx) == IF idx = NoIdx THEN FALSE ELSE idx[1] # 0

\* buffer[idx], line 330: the items at the positions of idx; a position
\* outside the buffer raises IndexError.
InRange(buffer, idx) == \A i \in DOMAIN idx : idx[i] < Len(buffer)
Take(buffer, idx) == [i \in DOMAIN idx |-> buffer[idx[i] + 1]]
ModelId(v) == v
RuntimeSrvId(v) == ServiceOf(v)

\* A set_var without the assertions.
SetVarUnguarded(v, x, idx) ==
    /\ EnterWith("set_var", NoCond, v, x, idx)
    /\ Counted
    /\ Goto("set_send")
    /\ UNCHANGED <<is_initialized, is_started, is_running, current_ts,
                   num_steps, messaging_infrastructure, ports_joined,
                   stepsIssued, rtChans, procChans, svcVars, actVars, actHist,
                   buildVars>>

\* Runtime.set_var, lines 305-307: the assertions. buffer is the value.
SetVar(v, x, idx) ==
    /\ IF is_started /\ ~is_running
       THEN /\ EnterWith("set_var", NoCond, v, x, idx)
            /\ Goto("set_send")
       ELSE \* AssertionError, before var_id and value are looked at
            /\ Enter("set_var", NoCond, NoVar)
            /\ Return("raised")
    /\ Counted
    /\ UNCHANGED <<is_initialized, is_started, is_running, current_ts,
                   num_steps, messaging_infrastructure, ports_joined,
                   stepsIssued, rtChans, procChans, svcVars, actVars, actHist,
                   buildVars>>

\* Lines 322-333: SET, model_id, var_id on the request port of the
\* Service; after the last of them the buffer becomes buffer[idx] if idx is
\* true, which raises IndexError for a position outside the buffer, and
\* num_items is the number of its items.
SetVarSend ==
    /\ rtPc = "set_send"
    /\ LET srv == RuntimeSrvId(call.var_id)
           msg == <<SET, ModelId(call.var_id), call.var_id>>
       IN /\ CanSend(runtime_to_service_req, srv)
          /\ runtime_to_service_req' =
                 Send(runtime_to_service_req, srv, msg[rtIdx])
          /\ IF rtIdx < Len(msg)
             THEN /\ rtIdx' = rtIdx + 1
                  /\ UNCHANGED <<rtPc, rtNum, rtBuf, rtResult>>
             ELSE IF ~Truth(call.idx)
                  THEN /\ rtIdx' = 0
                       /\ rtPc' = "set_data"
                       /\ rtNum' = Len(rtBuf)
                       /\ UNCHANGED <<rtBuf, rtResult>>
                  ELSE IF InRange(rtBuf, call.idx)
                       THEN /\ rtIdx' = 0
                            /\ rtPc' = "set_data"
                            /\ rtBuf' = Take(rtBuf, call.idx)
                            /\ rtNum' = Len(call.idx)
                            /\ UNCHANGED rtResult
                       ELSE /\ Return("raised")
                            /\ UNCHANGED <<rtNum, rtBuf>>
    /\ UNCHANGED <<is_initialized, is_started, is_running, current_ts,
                   num_steps, messaging_infrastructure, ports_joined,
                   call, sent, rcvd, resp, nCalls,
                   stepsIssued, runtime_to_service_cmd, service_to_runtime_ack,
                   service_to_runtime_data, runtime_to_service_data,
                   procChans, svcVars, actVars, actHist, buildVars>>

\* Lines 336-340: num_items, then the items one by one as float64; the
\* call returns after the last send.
SetVarData ==
    /\ rtPc = "set_data"
    /\ LET srv == RuntimeSrvId(call.var_id)
       IN /\ CanSend(runtime_to_service_data, srv)
          /\ runtime_to_service_data' =
                 Send(runtime_to_service_data, srv,
                      IF rtIdx = 0 THEN rtNum ELSE rtBuf[rtIdx])
    /\ IF rtIdx < rtNum
       THEN /\ rtIdx' = rtIdx + 1
            /\ UNCHANGED <<rtPc, rtResult>>
       ELSE Return("returned")
    /\ UNCHANGED <<is_initialized, is_started, is_running, current_ts,
                   num_steps, messaging_infrastructure, ports_joined, rtNum,
                   rtBuf, call, sent, rcvd, resp, nCalls, stepsIssued,
                   runtime_to_service_cmd, service_to_runtime_ack,
                   runtime_to_service_req, service_to_runtime_data,
                   procChans, svcVars, actVars, actHist, buildVars>>

\* Runtime.get_var, lines 345-347: the assertions
GetVar(v) ==
    /\ IF is_started /\ ~is_running
       THEN /\ Enter("get_var", NoCond, v)
            /\ Goto("get_send")
       ELSE \* AssertionError, before var_id is looked at
            /\ Enter("get_var", NoCond, NoVar)
            /\ Return("raised")
    /\ Counted
    /\ UNCHANGED <<is_initialized, is_started, is_running, current_ts,
                   num_steps, messaging_infrastructure, ports_joined,
                   stepsIssued, rtChans, procChans, svcVars, actVars, actHist,
                   buildVars>>

\* Lines 365-368: GET, model_id, var_id on the request port of the Service
GetVarSend ==
    /\ rtPc = "get_send"
    /\ LET srv == RuntimeSrvId(call.var_id)
           msg == <<GET, ModelId(call.var_id), call.var_id>>
       IN /\ CanSend(runtime_to_service_req, srv)
          /\ runtime_to_service_req' =
                 Send(runtime_to_service_req, srv, msg[rtIdx])
          /\ IF rtIdx < Len(msg)
             THEN /\ rtIdx' = rtIdx + 1
                  /\ UNCHANGED <<rtPc, rtResult>>
             ELSE Goto("get_recv")
    /\ UNCHANGED <<is_initialized, is_started, is_running, current_ts,
                   num_steps, messaging_infrastructure, ports_joined, rtNum,
                   rtBuf, call, sent, rcvd, resp, nCalls, stepsIssued,
                   runtime_to_service_cmd, service_to_runtime_ack,
                   service_to_runtime_data, runtime_to_service_data,
                   procChans, svcVars, actVars, actHist, buildVars>>

\* Lines 371-383: num_items, then the items one by one; the buffer is the
\* value returned.
GetVarRecv ==
    /\ rtPc \in {"get_recv", "get_items"}
    /\ LET srv == RuntimeSrvId(call.var_id)
           tok == Peek(service_to_runtime_data, srv)
       IN /\ Probe(service_to_runtime_data, srv)
          /\ service_to_runtime_data' = Recv(service_to_runtime_data, srv)
          /\ IF rtPc = "get_recv"
             THEN /\ rtNum' = tok
                  /\ rtBuf' = <<>>
                  /\ IF tok = 0
                     THEN Return("returned")
                     ELSE /\ rtPc' = "get_items"
                          /\ UNCHANGED <<rtIdx, rtResult>>
             ELSE /\ rtBuf' = Append(rtBuf, tok)
                  /\ UNCHANGED rtNum
                  /\ IF Len(rtBuf) + 1 = rtNum
                     THEN Return("returned")
                     ELSE UNCHANGED <<rtPc, rtIdx, rtResult>>
    /\ UNCHANGED <<is_initialized, is_started, is_running, current_ts,
                   num_steps, messaging_infrastructure, ports_joined,
                   call, sent, rcvd, resp, nCalls, stepsIssued,
                   runtime_to_service_cmd, service_to_runtime_ack,
                   runtime_to_service_req, runtime_to_service_data,
                   procChans, svcVars, actVars, actHist, buildVars>>

(***************************************************************************)
(* Runtime Service (specification 4.2).  One loop per synchronization      *)
(* domain: await a command of the Runtime, decode it, drive the owned      *)
(* Process Actors, answer upstream.                                        *)
(***************************************************************************)
NoReq == [type |-> -1, model |-> 0, var |-> 0, left |-> -1, tok |-> 0]

\* The token a PAUSE is forwarded as: the HOST phase for the actors of the
\* phased protocol, PAUSE for the others.
PauseToken ==
    [a \in Actors |-> IF kind[a] = "PyLoihi" THEN HOST ELSE PAUSE]

\* Phase sequence SPK -> PRE_MGMT -> LRN -> POST_MGMT
NextPhase(ph) == IF ph = POST_MGMT THEN SPK ELSE ph + 1

SvcGoto(s, pc) ==
    svcPc' = [svcPc EXCEPT ![s] = pc]

\* Steps 1 and 2: await a command token and decode it.
SvcRecvCmd(s) ==
    /\ svcPc[s] = "await"
    /\ Probe(runtime_to_service_cmd, s)
    /\ runtime_to_service_cmd' = Recv(runtime_to_service_cmd, s)
    /\ LET t == Peek(runtime_to_service_cmd, s)
       IN CASE t > 0 ->
                 /\ SvcGoto(s, "phase_send")
                 /\ svcSteps' = [svcSteps EXCEPT ![s] = t]
                 /\ svcPhase' = [svcPhase EXCEPT ![s] = SPK]
            [] t = 0 ->
                 /\ SvcGoto(s, "ack_done")
                 /\ UNCHANGED <<svcSteps, svcPhase>>
            [] t = PAUSE ->
                 /\ SvcGoto(s, "pause_send")
                 /\ UNCHANGED <<svcSteps, svcPhase>>
            [] t = STOP ->
                 /\ SvcGoto(s, "stop_send")
                 /\ UNCHANGED <<svcSteps, svcPhase>>
            [] OTHER ->
                 \* ProtocolError: TERMINATED is propagated upstream
                 /\ SvcGoto(s, "ack_failed")
                 /\ UNCHANGED <<svcSteps, svcPhase>>
    /\ UNCHANGED <<rtVars, service_to_runtime_ack, runtime_to_service_req,
                   service_to_runtime_data, runtime_to_service_data,
                   procChans, svcIdx, svcReq, actVars, actHist, buildVars>>

\* Broadcast of one token to every owned actor; tok[a] is the token of a.
SvcBroadcast(s, tok, after) ==
    /\ \A a \in ActorsOf(s) : CanSend(service_to_process_cmd, a)
    /\ service_to_process_cmd' =
           [a \in Actors |->
               IF a \in ActorsOf(s)
               THEN Append(service_to_process_cmd[a], tok[a])
               ELSE service_to_process_cmd[a]]
    /\ SvcGoto(s, after)

\* Gathering of one response per owned actor; a response other than
\* `expected` is a ProtocolError.
SvcGather(s, expected, after) ==
    /\ \A a \in ActorsOf(s) : Probe(process_to_service_ack, a)
    /\ process_to_service_ack' =
           [a \in Actors |->
               IF a \in ActorsOf(s)
               THEN Tail(process_to_service_ack[a])
               ELSE process_to_service_ack[a]]
    /\ IF \E a \in ActorsOf(s) : Peek(process_to_service_ack, a) # expected
       THEN /\ SvcGoto(s, "ack_failed")
            /\ UNCHANGED <<svcSteps, svcPhase>>
       ELSE after

PhaseToken(s) == [a \in Actors |-> svcPhase[s]]

SvcSendPhase(s) ==
    /\ svcPc[s] = "phase_send"
    /\ SvcBroadcast(s, PhaseToken(s), "phase_recv")
    /\ UNCHANGED <<rtVars, rtChans, process_to_service_ack,
                   service_to_process_req, process_to_service_data,
                   service_to_process_data, svcIdx, svcSteps, svcPhase, svcReq,
                   actVars, actHist, buildVars>>

\* After the DONE of every actor: the next phase, the next step, or the
\* DONE of the run.
SvcAdvance(s) ==
    IF svcPhase[s] # POST_MGMT
    THEN /\ SvcGoto(s, "phase_send")
         /\ svcPhase' = [svcPhase EXCEPT ![s] = NextPhase(@)]
         /\ UNCHANGED svcSteps
    ELSE /\ svcSteps' = [svcSteps EXCEPT ![s] = @ - 1]
         /\ svcPhase' = [svcPhase EXCEPT ![s] = SPK]
         /\ SvcGoto(s, IF svcSteps[s] = 1 THEN "ack_done" ELSE "phase_send")

SvcGatherDone(s) ==
    /\ svcPc[s] = "phase_recv"
    /\ SvcGather(s, DONE, SvcAdvance(s))
    /\ UNCHANGED <<rtVars, rtChans, service_to_process_cmd,
                   service_to_process_req, process_to_service_data,
                   service_to_process_data, svcIdx, svcReq, actVars, actHist,
                   buildVars>>

SvcSendPause(s) ==
    /\ svcPc[s] = "pause_send"
    /\ SvcBroadcast(s, PauseToken, "pause_recv")
    /\ UNCHANGED <<rtVars, rtChans, process_to_service_ack,
                   service_to_process_req, process_to_service_data,
                   service_to_process_data, svcIdx, svcSteps, svcPhase, svcReq,
                   actVars, actHist, buildVars>>

SvcGatherPaused(s) ==
    /\ svcPc[s] = "pause_recv"
    /\ SvcGather(s, PAUSED,
                 SvcGoto(s, "ack_paused") /\ UNCHANGED <<svcSteps, svcPhase>>)
    /\ UNCHANGED <<rtVars, rtChans, service_to_process_cmd,
                   service_to_process_req, process_to_service_data,
                   service_to_process_data, svcIdx, svcReq, actVars, actHist,
                   buildVars>>

StopToken == [a \in Actors |-> STOP]

SvcSendStop(s) ==
    /\ svcPc[s] = "stop_send"
    /\ SvcBroadcast(s, StopToken, "stop_recv")
    /\ UNCHANGED <<rtVars, rtChans, process_to_service_ack,
                   service_to_process_req, process_to_service_data,
                   service_to_process_data, svcIdx, svcSteps, svcPhase, svcReq,
                   actVars, actHist, buildVars>>

SvcGatherTerminated(s) ==
    /\ svcPc[s] = "stop_recv"
    /\ SvcGather(s, TERMINATED,
                 SvcGoto(s, "ack_terminated") /\ UNCHANGED <<svcSteps, svcPhase>>)
    /\ UNCHANGED <<rtVars, rtChans, service_to_process_cmd,
                   service_to_process_req, process_to_service_data,
                   service_to_process_data, svcIdx, svcReq, actVars, actHist,
                   buildVars>>

\* The response forwarded upstream, and where the Service goes on.
AckPcs == {"ack_done", "ack_paused", "ack_terminated", "ack_failed"}
AckToken(pc) ==
    CASE pc = "ack_done" -> DONE
      [] pc = "ack_paused" -> PAUSED
      [] OTHER -> TERMINATED
AfterAck(pc) ==
    IF pc \in {"ack_done", "ack_paused"} THEN "await" ELSE "terminated"

SvcAck(s) ==
    /\ svcPc[s] \in AckPcs
    /\ CanSend(service_to_runtime_ack, s)
    /\ service_to_runtime_ack' =
           Send(service_to_runtime_ack, s, AckToken(svcPc[s]))
    /\ SvcGoto(s, AfterAck(svcPc[s]))
    /\ UNCHANGED <<rtVars, runtime_to_service_cmd, runtime_to_service_req,
                   service_to_runtime_data, runtime_to_service_data,
                   procChans, svcIdx, svcSteps, svcPhase, svcReq, actVars,
                   actHist, buildVars>>

\* Step 3: variable access brokered while no command is being served. The
\* request header is GET|SET, process_id, var_id.
SvcRecvReq(s) ==
    /\ svcPc[s] \in {"await", "req_model", "req_var"}
    /\ Probe(runtime_to_service_req, s)
    /\ runtime_to_service_req' = Recv(runtime_to_service_req, s)
    /\ LET t == Peek(runtime_to_service_req, s)
       IN CASE svcPc[s] = "await" ->
                 /\ svcReq' = [svcReq EXCEPT ![s] = [NoReq EXCEPT !.type = t]]
                 /\ SvcGoto(s, "req_model")
            [] svcPc[s] = "req_model" ->
                 /\ svcReq' = [svcReq EXCEPT ![s].model = t]
                 /\ SvcGoto(s, "req_var")
            [] OTHER ->
                 /\ svcReq' = [svcReq EXCEPT ![s].var = t]
                 /\ SvcGoto(s, "req_fwd")
    /\ svcIdx' = [svcIdx EXCEPT ![s] = 1]
    /\ UNCHANGED <<rtVars, runtime_to_service_cmd, service_to_runtime_ack,
                   service_to_runtime_data, runtime_to_service_data,
                   procChans, svcSteps, svcPhase, actVars, actHist,
                   buildVars>>

\* The request is forwarded to the addressed actor: its type, then var_id.
SvcFwdReq(s) ==
    /\ svcPc[s] = "req_fwd"
    /\ LET a == svcReq[s].model
           msg == <<svcReq[s].type, svcReq[s].var>>
       IN /\ CanSend(service_to_process_req, a)
          /\ service_to_process_req' =
                 Send(service_to_process_req, a, msg[svcIdx[s]])
          /\ IF svcIdx[s] < Len(msg)
             THEN /\ svcIdx' = [svcIdx EXCEPT ![s] = @ + 1]
                  /\ UNCHANGED svcPc
             ELSE /\ svcIdx' = [svcIdx EXCEPT ![s] = 1]
                  /\ SvcGoto(s, IF svcReq[s].type = SET
                                THEN "set_recv"
                                ELSE "get_recv")
    /\ UNCHANGED <<rtVars, rtChans, service_to_process_cmd,
                   process_to_service_ack, process_to_service_data,
                   service_to_process_data, svcSteps, svcPhase, svcReq,
                   actVars, actHist, buildVars>>

\* GET: the actor's data tokens are shuttled back, num_items first.
SvcGetRecv(s) ==
    /\ svcPc[s] = "get_recv"
    /\ LET a == svcReq[s].model
       IN /\ Probe(process_to_service_data, a)
          /\ process_to_service_data' = Recv(process_to_service_data, a)
          /\ svcReq' = [svcReq EXCEPT
                           ![s].tok = Peek(process_to_service_data, a)]
    /\ SvcGoto(s, "get_send")
    /\ UNCHANGED <<rtVars, rtChans, service_to_process_cmd,
                   process_to_service_ack, service_to_process_req,
                   service_to_process_data, svcIdx, svcSteps, svcPhase,
                   actVars, actHist, buildVars>>

SvcGetSend(s) ==
    /\ svcPc[s] = "get_send"
    /\ CanSend(service_to_runtime_data, s)
    /\ service_to_runtime_data' =
           Send(service_to_runtime_data, s, svcReq[s].tok)
    /\ LET left == IF svcReq[s].left = -1
                   THEN svcReq[s].tok
                   ELSE svcReq[s].left - 1
       IN IF left = 0
          THEN /\ svcReq' = [svcReq EXCEPT ![s] = NoReq]
               /\ SvcGoto(s, "await")
          ELSE /\ svcReq' = [svcReq EXCEPT ![s].left = left]
               /\ SvcGoto(s, "get_recv")
    /\ UNCHANGED <<rtVars, runtime_to_service_cmd, service_to_runtime_ack,
                   runtime_to_service_req, runtime_to_service_data,
                   procChans, svcIdx, svcSteps, svcPhase, actVars, actHist,
                   buildVars>>

\* SET: the Runtime's data tokens are shuttled to the actor, num_items first.
SvcSetRecv(s) ==
    /\ svcPc[s] = "set_recv"
    /\ Probe(runtime_to_service_data, s)
    /\ runtime_to_service_data' = Recv(runtime_to_service_data, s)
    /\ svcReq' = [svcReq EXCEPT ![s].tok = Peek(runtime_to_service_data, s)]
    /\ SvcGoto(s, "set_send")
    /\ UNCHANGED <<rtVars, runtime_to_service_cmd, service_to_runtime_ack,
                   runtime_to_service_req, service_to_runtime_data,
                   procChans, svcIdx, svcSteps, svcPhase, actVars, actHist,
                   buildVars>>

SvcSetSend(s) ==
    /\ svcPc[s] = "set_send"
    /\ LET a == svcReq[s].model
           left == IF svcReq[s].left = -1
                   THEN svcReq[s].tok
                   ELSE svcReq[s].left - 1
       IN /\ CanSend(service_to_process_data, a)
          /\ service_to_process_data' =
                 Send(service_to_process_data, a, svcReq[s].tok)
          /\ IF left = 0
             THEN /\ svcReq' = [svcReq EXCEPT ![s] = NoReq]
                  /\ SvcGoto(s, "await")
             ELSE /\ svcReq' = [svcReq EXCEPT ![s].left = left]
                  /\ SvcGoto(s, "set_recv")
    /\ UNCHANGED <<rtVars, rtChans, service_to_process_cmd,
                   process_to_service_ack, service_to_process_req,
                   process_to_service_data, svcIdx, svcSteps, svcPhase,
                   actVars, actHist, buildVars>>

(***************************************************************************)
(* Process Actor (model.py).  actPc is the method the actor is in: "poll"  *)
(* is the top of the loop of AbstractPyProcessModel._run.  One iteration   *)
(* of that loop which finds a command (probe, recv, dispatch, handler) is  *)
(* one step, up to the loop the handler may end in.                        *)
(***************************************************************************)
\* A table of handlers that takes every unknown command as a PAUSE.
CmdHandlerLenient(k, cmd) ==
    CASE cmd = STOP -> "_stop"
      [] k = "PyLoihi" /\ cmd = SPK -> "_spike"
      [] k = "PyLoihi" /\ cmd = PRE_MGMT -> "_pre_mgmt"
      [] k = "PyLoihi" /\ cmd = LRN -> "_lrn"
      [] k = "PyLoihi" /\ cmd = POST_MGMT -> "_post_mgmt"
      [] OTHER -> "_pause"

\* self._cmd_handlers: lines 41-44 and, for PyLoihiProcessModel, 201-207.
\* A command outside the table raises ValueError (lines 156-160).
CmdHandler(k, cmd) ==
    CASE cmd = STOP -> "_stop"
      [] cmd = PAUSE -> "_pause"
      [] k = "PyLoihi" /\ cmd = SPK -> "_spike"
      [] k = "PyLoihi" /\ cmd = PRE_MGMT -> "_pre_mgmt"
      [] k = "PyLoihi" /\ cmd = LRN -> "_lrn"
      [] k = "PyLoihi" /\ cmd = POST_MGMT -> "_post_mgmt"
      [] k = "PyLoihi" /\ cmd = HOST -> "_pause"
      [] OTHER -> "ValueError"

PhaseHandlers == {"_spike", "_pre_mgmt", "_lrn", "_post_mgmt"}

\* The guards of the user's model, which lines 262-269 leave to the
\* subclass: here pre_guard holds in the odd time steps, post_guard in the
\* even ones, and lrn_guard holds for the model of actor 1 and is the
\* default of line 265, which returns None, for the others.
pre_guard(a) == actTs[a] % 2 = 1
lrn_guard(a) == a = 1
post_guard(a) == actTs[a] % 2 = 0

\* A handler that calls its callback whatever the guard returns.
CallbacksUnguarded(a, h) ==
    CASE h = "_spike" -> <<"run_spk">>
      [] h = "_pre_mgmt" -> <<"run_pre_mgmt">>
      [] h = "_lrn" -> <<"run_lrn">>
      [] h = "_post_mgmt" -> <<"run_post_mgmt">>
      [] OTHER -> <<>>

\* The user callbacks the handler h of actor a invokes, lines 221-248:
\* run_spk always, run_pre_mgmt, run_lrn and run_post_mgmt once if the
\* guard of the phase returns true; _stop and _pause invoke none.
Callbacks(a, h) ==
    CASE h = "_spike" -> <<"run_spk">>
      [] h = "_pre_mgmt" -> IF pre_guard(a) THEN <<"run_pre_mgmt">> ELSE <<>>
      [] h = "_lrn" -> IF lrn_guard(a) THEN <<"run_lrn">> ELSE <<>>
      [] h = "_post_mgmt" -> IF post_guard(a) THEN <<"run_post_mgmt">> ELSE <<>>
      [] OTHER -> <<>>

\* The callback cb is among those the actor a has invoked.
Invoked(a, cb) == \E i \in DOMAIN callbacks[a] : callbacks[a][i] = cb

\* "if self.run:", lines 45-46 and 161: the model of an
\* AbstractPyProcessModel actor defines run(); a PyLoihiProcessModel has
\* its phase callbacks in place of it.
HasRun(a) == kind[a] = "AbstractPy"

\* AbstractPyProcessModel._run, lines 150-153: the command port is probed,
\* the command received and its handler h called, which invokes the
\* callbacks of the handler.
Dispatch(a, h) ==
    /\ actPc[a] = "poll"
    /\ callbacks' = [callbacks EXCEPT ![a] = Callbacks(a, h)]
    /\ Probe(service_to_process_cmd, a)
    /\ CmdHandler(kind[a], Peek(service_to_process_cmd, a)) = h
    /\ service_to_process_cmd' = Recv(service_to_process_cmd, a)
    /\ nPhaseRecv' = [nPhaseRecv EXCEPT
           ![a] = IF h \in PhaseHandlers THEN @ + 1 ELSE @]
    /\ lastPhase' = [lastPhase EXCEPT
           ![a] = IF h \in PhaseHandlers
                  THEN Peek(service_to_process_cmd, a)
                  ELSE @]
    /\ nPauseRecv' = [nPauseRecv EXCEPT
           ![a] = IF h = "_pause" THEN @ + 1 ELSE @]

\* Lines 156-160: no handler, ValueError ends the actor
IllegalCmd(a) ==
    /\ Dispatch(a, "ValueError")
    /\ actPc' = [actPc EXCEPT ![a] = "ValueError"]
    /\ UNCHANGED <<rtVars, rtChans, process_to_service_ack,
                   service_to_process_req, process_to_service_data,
                   service_to_process_data, svcVars, kind, actIdx, actTs, var,
                   nDoneSent, nPausedSent, actNum, nTerminatedSent,
                   act_ports_joined, buildVars>>

\* self.process_to_service_ack.send(MGMT_RESPONSE.DONE)
SendDone(a) ==
    /\ CanSend(process_to_service_ack, a)
    /\ process_to_service_ack' = Send(process_to_service_ack, a, DONE)
    /\ nDoneSent' = [nDoneSent EXCEPT ![a] = @ + 1]

\* "if len(self.var_ports) > 0: self._handle_var_ports()"
AfterMgmt(a) == IF HasVarPorts(a) THEN "_handle_var_ports" ELSE "poll"

\* A _spike that answers DONE twice.
SpikeDoneTwice(a) ==
    /\ Dispatch(a, "_spike")
    /\ actTs' = [actTs EXCEPT ![a] = @ + 1]
    /\ Len(process_to_service_ack[a]) + 2 <= ChanCap
    /\ process_to_service_ack' =
           [process_to_service_ack EXCEPT ![a] = @ \o <<DONE, DONE>>]
    /\ nDoneSent' = [nDoneSent EXCEPT ![a] = @ + 2]
    /\ UNCHANGED <<rtVars, rtChans, service_to_process_req,
                   process_to_service_data, service_to_process_data, svcVars,
                   kind, actPc, actIdx, var, nPausedSent, actNum,
                   nTerminatedSent, act_ports_joined, buildVars>>

\* A _spike that leaves current_ts alone.
SpikeNoTs(a) ==
    /\ Dispatch(a, "_spike")
    /\ SendDone(a)
    /\ UNCHANGED <<rtVars, rtChans, service_to_process_req,
                   process_to_service_data, service_to_process_data, svcVars,
                   kind, actPc, actIdx, actTs, var, nPausedSent, actNum,
                   nTerminatedSent, act_ports_joined, buildVars>>

\* PyLoihiProcessModel._spike
Spike(a) ==
    /\ Dispatch(a, "_spike")
    /\ actTs' = [actTs EXCEPT ![a] = @ + 1]
    /\ SendDone(a)
    /\ UNCHANGED <<rtVars, rtChans, service_to_process_req,
                   process_to_service_data, service_to_process_data, svcVars,
                   kind, actPc, actIdx, var, nPausedSent, actNum,
                   nTerminatedSent, act_ports_joined, buildVars>>

\* PyLoihiProcessModel._pre_mgmt
PreMgmt(a) ==
    /\ Dispatch(a, "_pre_mgmt")
    /\ SendDone(a)
    /\ actPc' = [actPc EXCEPT ![a] = AfterMgmt(a)]
    /\ UNCHANGED <<rtVars, rtChans, service_to_process_req,
                   process_to_service_data, service_to_process_data, svcVars,
                   kind, actIdx, actTs, var, nPausedSent, actNum,
                   nTerminatedSent, act_ports_joined, buildVars>>

\* A _lrn that forgets its DONE.
LrnNoDone(a) ==
    /\ Dispatch(a, "_lrn")
    /\ UNCHANGED <<rtVars, rtChans, process_to_service_ack,
                   service_to_process_req, process_to_service_data,
                   service_to_process_data, svcVars, kind, actPc, actIdx,
                   actTs, var, nDoneSent, nPausedSent, actNum,
                   nTerminatedSent, act_ports_joined, buildVars>>

\* PyLoihiProcessModel._lrn
Lrn(a) ==
    /\ Dispatch(a, "_lrn")
    /\ SendDone(a)
    /\ UNCHANGED <<rtVars, rtChans, service_to_process_req,
                   process_to_service_data, service_to_process_data, svcVars,
                   kind, actPc, actIdx, actTs, var, nPausedSent, actNum,
                   nTerminatedSent, act_ports_joined, buildVars>>

\* PyLoihiProcessModel._post_mgmt
PostMgmt(a) ==
    /\ Dispatch(a, "_post_mgmt")
    /\ SendDone(a)
    /\ actPc' = [actPc EXCEPT ![a] = AfterMgmt(a)]
    /\ UNCHANGED <<rtVars, rtChans, service_to_process_req,
                   process_to_service_data, service_to_process_data, svcVars,
                   kind, actIdx, actTs, var, nPausedSent, actNum,
                   nTerminatedSent, act_ports_joined, buildVars>>

\* A _handle_var_ports that receives the command it has probed.
HandleVarPortsRecv(a) ==
    /\ actPc[a] = "_handle_var_ports"
    /\ Probe(service_to_process_cmd, a)
    /\ service_to_process_cmd' = Recv(service_to_process_cmd, a)
    /\ callbacks' = [callbacks EXCEPT ![a] = Append(@, "service")]
    /\ actPc' = [actPc EXCEPT ![a] = "poll"]
    /\ UNCHANGED <<rtVars, rtChans, process_to_service_ack,
                   service_to_process_req, process_to_service_data,
                   service_to_process_data, svcVars, kind, actIdx, actTs,
                   var, nPhaseRecv, nDoneSent, lastPhase, nPauseRecv,
                   nPausedSent, nTerminatedSent, act_ports_joined, actNum,
                   buildVars>>

\* AbstractPyProcessModel._handle_var_ports, lines 135-146: a pass of the
\* loop services every VarPort and then probes the command port; the loop
\* ends with the pass that probes a command, which stays on the port. A
\* pass that finds no command changes nothing and is left out.
HandleVarPorts(a) ==
    /\ actPc[a] = "_handle_var_ports"
    /\ Probe(service_to_process_cmd, a)
    /\ callbacks' = [callbacks EXCEPT ![a] = Append(@, "service")]
    /\ actPc' = [actPc EXCEPT ![a] = "poll"]
    /\ UNCHANGED <<rtVars, rtChans, procChans, svcVars, kind, actIdx, actTs,
                   var, nPhaseRecv, nDoneSent, lastPhase, nPauseRecv,
                   nPausedSent, nTerminatedSent, act_ports_joined, actNum,
                   buildVars>>

\* AbstractPyProcessModel._pause, lines 52-55: PAUSED, then the get/set loop
AbstractPy_pause(a) ==
    /\ CanSend(process_to_service_ack, a)
    /\ process_to_service_ack' = Send(process_to_service_ack, a, PAUSED)
    /\ nPausedSent' = [nPausedSent EXCEPT ![a] = @ + 1]
    /\ actPc' = [actPc EXCEPT ![a] = "_handle_get_set_var"]

\* PyLoihiProcessModel._pause, lines 216-219: the get/set loop alone
PyLoihi_pause(a) ==
    /\ UNCHANGED <<process_to_service_ack, nPausedSent>>
    /\ actPc' = [actPc EXCEPT ![a] = "_handle_get_set_var"]

\* The handler of PAUSE and, for PyLoihiProcessModel, of HOST
ActorPause(a) ==
    /\ Dispatch(a, "_pause")
    /\ IF kind[a] = "PyLoihi" THEN PyLoihi_pause(a) ELSE AbstractPy_pause(a)
    /\ UNCHANGED <<rtVars, rtChans, service_to_process_req,
                   process_to_service_data, service_to_process_data, svcVars,
                   kind, actIdx, actTs, var, nDoneSent, actNum,
                   nTerminatedSent, act_ports_joined, buildVars>>

\* The ports of an actor (lines 32-36).
ActorPorts ==
    {"service_to_process_cmd", "process_to_service_ack",
     "service_to_process_req", "process_to_service_data",
     "service_to_process_data"}

\* AbstractPyProcessModel.join
ActorJoin(a) ==
    act_ports_joined' = [act_ports_joined EXCEPT ![a] = ActorPorts]

\* A _stop that answers TERMINATED and does not join.
ActorStopNoJoin(a) ==
    /\ Dispatch(a, "_stop")
    /\ CanSend(process_to_service_ack, a)
    /\ process_to_service_ack' = Send(process_to_service_ack, a, TERMINATED)
    /\ nTerminatedSent' = [nTerminatedSent EXCEPT ![a] = @ + 1]
    /\ actPc' = [actPc EXCEPT ![a] = "exited"]
    /\ UNCHANGED <<rtVars, rtChans, service_to_process_req,
                   process_to_service_data, service_to_process_data, svcVars,
                   kind, actIdx, actTs, var, nDoneSent, nPausedSent, actNum,
                   act_ports_joined, buildVars>>

\* AbstractPyProcessModel._stop: TERMINATED, join; _run then breaks.
ActorStop(a) ==
    /\ Dispatch(a, "_stop")
    /\ CanSend(process_to_service_ack, a)
    /\ process_to_service_ack' = Send(process_to_service_ack, a, TERMINATED)
    /\ nTerminatedSent' = [nTerminatedSent EXCEPT ![a] = @ + 1]
    /\ ActorJoin(a)
    /\ actPc' = [actPc EXCEPT ![a] = "exited"]
    /\ UNCHANGED <<rtVars, rtChans, service_to_process_req,
                   process_to_service_data, service_to_process_data, svcVars,
                   kind, actIdx, actTs, var, nDoneSent, nPausedSent, actNum,
                   buildVars>>

\* _handle_get_set_var, lines 119-128: the probe of the request port. The
\* request type is read here, the var_id in the handler.
ProbeReq(a) ==
    /\ actPc[a] = "_handle_get_set_var"
    /\ IF Probe(service_to_process_req, a)
       THEN /\ service_to_process_req' = Recv(service_to_process_req, a)
            /\ actPc' = [actPc EXCEPT ![a] =
                   CASE Peek(service_to_process_req, a) = GET ->
                            "_handle_get_var"
                     [] Peek(service_to_process_req, a) = SET ->
                            "_handle_set_var"
                     [] OTHER -> "RuntimeError"]
       ELSE /\ actPc' = [actPc EXCEPT ![a] = "probe_cmd"]
            /\ UNCHANGED service_to_process_req
    /\ UNCHANGED <<rtVars, rtChans, service_to_process_cmd,
                   process_to_service_ack, process_to_service_data,
                   service_to_process_data, svcVars, kind, actIdx, actTs, var,
                   actHist, actNum, buildVars>>

\* _handle_get_set_var, lines 130-132: the probe of the command port. An
\* iteration that finds both ports empty changes nothing and is left out.
\* With a command probed the loop returns, _pause returns, and the
\* iteration of _run ends with lines 161-162: run() is called if the model
\* has one, with the command still on the port.
ProbeCmd(a) ==
    /\ actPc[a] = "probe_cmd"
    /\ Probe(service_to_process_cmd, a) \/ Probe(service_to_process_req, a)
    /\ actPc' = [actPc EXCEPT ![a] =
           IF Probe(service_to_process_cmd, a)
           THEN "poll"
           ELSE "_handle_get_set_var"]
    /\ callbacks' = [callbacks EXCEPT ![a] =
           IF Probe(service_to_process_cmd, a) /\ HasRun(a)
           THEN Append(@, "run")
           ELSE @]
    /\ UNCHANGED <<rtVars, rtChans, procChans, svcVars, kind, actIdx, actTs,
                   var, nPhaseRecv, nDoneSent, lastPhase, nPauseRecv,
                   nPausedSent, nTerminatedSent, act_ports_joined, actNum,
                   buildVars>>

\* The isinstance tests of _handle_get_var and _handle_set_var: int and
\* np.integer, then np.ndarray.
IntTypes == {"int", "np.integer"}
SupportedTypes == IntTypes \cup {"ndarray"}

\* _handle_get_var, lines 60-71: var_id is received; a Var of another type
\* is answered with nothing.
HandleGetVar(a) ==
    /\ actPc[a] = "_handle_get_var"
    /\ Probe(service_to_process_req, a)
    /\ service_to_process_req' = Recv(service_to_process_req, a)
    /\ actPc' = [actPc EXCEPT ![a] =
           IF var[a].type \in SupportedTypes
           THEN "get_var_send"
           ELSE "probe_cmd"]
    /\ actIdx' = [actIdx EXCEPT ![a] = 0]
    /\ UNCHANGED <<rtVars, rtChans, service_to_process_cmd,
                   process_to_service_ack, process_to_service_data,
                   service_to_process_data, svcVars, kind, actTs, var,
                   actHist, actNum, buildVars>>

\* A _handle_get_var that sends its last item twice.
GetVarDataExtra(a) ==
    /\ actPc[a] = "get_var_send"
    /\ CanSend(process_to_service_data, a)
    /\ process_to_service_data' =
           Send(process_to_service_data, a,
                IF actIdx[a] = 0
                THEN Len(var[a].val)
                ELSE IF actIdx[a] > Len(var[a].val)
                     THEN var[a].val[Len(var[a].val)]
                     ELSE var[a].val[actIdx[a]])
    /\ IF actIdx[a] < Len(var[a].val) + 1
       THEN /\ actIdx' = [actIdx EXCEPT ![a] = @ + 1]
            /\ UNCHANGED actPc
       ELSE /\ actIdx' = [actIdx EXCEPT ![a] = 0]
            /\ actPc' = [actPc EXCEPT ![a] = "probe_cmd"]
    /\ UNCHANGED <<rtVars, rtChans, service_to_process_cmd,
                   process_to_service_ack, service_to_process_req,
                   service_to_process_data, svcVars, kind, actTs, var,
                   actHist, actNum, buildVars>>

\* _handle_get_var, lines 71-77: num_items, then the items one by one
GetVarData(a) ==
    /\ actPc[a] = "get_var_send"
    /\ CanSend(process_to_service_data, a)
    /\ process_to_service_data' =
           Send(process_to_service_data, a,
                IF actIdx[a] = 0
                THEN Len(var[a].val)
                ELSE var[a].val[actIdx[a]])
    /\ IF actIdx[a] < Len(var[a].val)
       THEN /\ actIdx' = [actIdx EXCEPT ![a] = @ + 1]
            /\ UNCHANGED actPc
       ELSE /\ actIdx' = [actIdx EXCEPT ![a] = 0]
            /\ actPc' = [actPc EXCEPT ![a] = "probe_cmd"]
    /\ UNCHANGED <<rtVars, rtChans, service_to_process_cmd,
                   process_to_service_ack, service_to_process_req,
                   service_to_process_data, svcVars, kind, actTs, var,
                   actHist, actNum, buildVars>>

\* _handle_set_var, lines 82-88 and 107-108: var_id is received; a Var
\* that is neither an integer nor an array raises RuntimeError.
HandleSetVar(a) ==
    /\ actPc[a] = "_handle_set_var"
    /\ Probe(service_to_process_req, a)
    /\ service_to_process_req' = Recv(service_to_process_req, a)
    /\ actPc' = [actPc EXCEPT ![a] =
           IF var[a].type \in SupportedTypes
           THEN "set_var_recv"
           ELSE "RuntimeError"]
    /\ actIdx' = [actIdx EXCEPT ![a] = 0]
    /\ UNCHANGED <<rtVars, rtChans, service_to_process_cmd,
                   process_to_service_ack, process_to_service_data,
                   service_to_process_data, svcVars, kind, actNum, actTs, var,
                   actHist, buildVars>>

\* What _handle_set_var stores for an integer Var from the float64 item
\* received: buffer.item(), a Python float, in place of an int (line 94);
\* buffer.astype(var.dtype) in place of a numpy integer (line 96).
StoreInt(v, item) ==
    IF v.type = "int"
    THEN [type |-> "float", val |-> <<item>>]
    ELSE [type |-> v.type, val |-> <<item>>]

\* _handle_set_var, lines 88-106: num_items, then the items. An integer
\* Var drops num_items and takes one item; an array takes an item per
\* element while num_items lasts.
SetVarRecv(a) ==
    /\ actPc[a] = "set_var_recv"
    /\ Probe(service_to_process_data, a)
    /\ service_to_process_data' = Recv(service_to_process_data, a)
    /\ LET tok == Peek(service_to_process_data, a)
           num == IF actIdx[a] = 0
                  THEN IF var[a].type \in IntTypes THEN 1 ELSE tok
                  ELSE actNum[a] - 1
           last == num = 0 \/ actIdx[a] = Len(var[a].val)
       IN /\ actNum' = [actNum EXCEPT ![a] = num]
          /\ var' = [var EXCEPT ![a] =
                 IF actIdx[a] = 0
                 THEN @
                 ELSE IF @.type \in IntTypes
                      THEN StoreInt(@, tok)
                      ELSE [@ EXCEPT !.val[actIdx[a]] = tok]]
          /\ actIdx' = [actIdx EXCEPT ![a] = IF last THEN 0 ELSE @ + 1]
          /\ actPc' = [actPc EXCEPT ![a] =
                 IF last THEN "probe_cmd" ELSE "set_var_recv"]
    /\ UNCHANGED <<rtVars, rtChans, service_to_process_cmd,
                   process_to_service_ack, service_to_process_req,
                   process_to_service_data, svcVars, kind, actTs, actHist,
                   buildVars>>

(***************************************************************************)
(* Vars (variable.py).  objs are the Var objects constructed so far, in    *)
(* the order of construction; a Var is referred to by its place in objs.   *)
(***************************************************************************)
\* The Vars constructed in all.
MaxVars == 3

None == 0

\* AbstractProcess.is_sub_proc_of: "sub" is a sub-process of "comp".
Procs == {"comp", "sub"}
is_sub_proc_of(p, q) == p = "sub" /\ q = "comp"

\* What a Var is constructed with, and the process it is made a member of.
VarInputs ==
    {[shape |-> <<1>>, shareable |-> TRUE, process |-> "comp", init |-> 0],
     [shape |-> <<1>>, shareable |-> TRUE, process |-> "sub", init |-> 1],
     [shape |-> <<2>>, shareable |-> TRUE, process |-> "sub", init |-> 0],
     [shape |-> <<1>>, shareable |-> FALSE, process |-> "sub", init |-> 1]}

\* IdGeneratorSingleton.get_next_id: the id issued, and the counter after.
get_next_id == [id |-> next_id, next |-> next_id + 1]

\* A register that issues the same id again.
registerSameId(v) ==
    /\ varserver_vars' = Append(varserver_vars, v)
    /\ next_id' = next_id
    /\ nRegistered' = nRegistered + 1

\* VarServer.register
register(v) ==
    /\ varserver_vars' = Append(varserver_vars, v)
    /\ next_id' = get_next_id.next
    /\ nRegistered' = nRegistered + 1

\* VarServer.num_vars
num_vars == Len(varserver_vars)

\* Var.__init__
Var(inp) ==
    /\ Len(objs) < MaxVars
    /\ register(Len(objs) + 1)
    /\ objs' = Append(objs, [id |-> get_next_id.id,
                             shape |-> inp.shape,
                             shareable |-> inp.shareable,
                             process |-> inp.process,
                             init |-> inp.init,
                             aliased_var |-> None])
    /\ UNCHANGED <<proc_runtime, store, result, ctlVars, portVars>>

\* VarServer.reset_server; the Vars constructed before live on.
reset_server ==
    /\ varserver_vars' = <<>>
    /\ next_id' = 0
    /\ nRegistered' = 0
    /\ UNCHANGED <<objs, proc_runtime, store, result, ctlVars, portVars>>

Raised(e) == [raised |-> e, value |-> 0]
Returned(x) == [raised |-> "none", value |-> x]

\* Var.alias: the tests of shape and shareable, then the assignment.
alias(a, b) ==
    /\ IF objs[a].shape # objs[b].shape
          \/ objs[a].shareable # objs[b].shareable
       THEN /\ result' = Raised("AssertionError")
            /\ UNCHANGED objs
       ELSE /\ objs' = [objs EXCEPT ![a].aliased_var = b]
            /\ result' = Returned(0)
    /\ UNCHANGED <<varserver_vars, next_id, nRegistered, proc_runtime, store,
                   ctlVars, portVars>>

\* Var.validate_alias: "ok", or the AssertionError it raises.
validate_alias(a) ==
    LET other_var == objs[a].aliased_var
    IN IF other_var = None
       THEN "ok"
       ELSE IF /\ objs[a].process # objs[other_var].process
               /\ is_sub_proc_of(objs[other_var].process, objs[a].process)
            THEN "ok"
            ELSE "AssertionError"

\* The depth at which Python gives up a recursion: any chain of more
\* calls than there are Vars goes round a cycle.
RecursionLimit == MaxVars + 1

\* The values of the items of a Var.
Values == {0, 1}

\* Runtime.get_var and Runtime.set_var as the Var sees them: the runtime
\* keeps a value for every var_id.
runtime_get_var(id) == store[id]
runtime_set_var(id, x) == [store EXCEPT ![id] = x]

\* A get that asks the runtime for the Var's own id.
getOwnId(a, n) ==
    IF proc_runtime
    THEN [raised |-> "none", value |-> runtime_get_var(objs[a].id),
          var_id |-> objs[a].id]
    ELSE [raised |-> "none", value |-> objs[a].init, var_id |-> None - 1]

\* Var.get with n calls left on the stack: what is returned or raised, and
\* the var_id asked of the runtime (-1: none).
RECURSIVE get(_, _)
get(a, n) ==
    IF n = 0
    THEN [raised |-> "RecursionError", value |-> 0, var_id |-> None - 1]
    ELSE IF objs[a].aliased_var # None
         THEN get(objs[a].aliased_var, n - 1)
         ELSE IF proc_runtime
              THEN [raised |-> "none",
                    value |-> runtime_get_var(objs[a].id),
                    var_id |-> objs[a].id]
              ELSE [raised |-> "none", value |-> objs[a].init,
                    var_id |-> None - 1]

\* Var.set with n calls left on the stack: what is raised, the var_id
\* addressed at the runtime (-1: none) and the values the runtime holds
\* after.
RECURSIVE set(_, _, _)
set(a, x, n) ==
    IF n = 0
    THEN [raised |-> "RecursionError", var_id |-> None - 1, store |-> store]
    ELSE IF objs[a].aliased_var # None
         THEN set(objs[a].aliased_var, x, n - 1)
         ELSE IF proc_runtime
              THEN [raised |-> "none", var_id |-> objs[a].id,
                    store |-> runtime_set_var(objs[a].id, x)]
              ELSE [raised |-> "ValueError", var_id |-> None - 1,
                    store |-> store]

\* The user calls var.get()
Get(a) ==
    /\ LET r == get(a, RecursionLimit)
       IN result' = [raised |-> r.raised, value |-> r.value]
    /\ UNCHANGED <<objs, varserver_vars, next_id, nRegistered, proc_runtime,
                   store, ctlVars, portVars>>

\* The user calls var.set(x)
Set(a, x) ==
    /\ LET r == set(a, x, RecursionLimit)
       IN /\ store' = r.store
          /\ result' = Raised(r.raised)
    /\ UNCHANGED <<objs, varserver_vars, next_id, nRegistered, proc_runtime,
                   ctlVars, portVars>>

\* AbstractProcess.run: the processes of the Vars get their runtime.
run ==
    /\ ~proc_runtime
    /\ proc_runtime' = TRUE
    /\ UNCHANGED <<objs, varserver_vars, next_id, nRegistered, store, result,
                   ctlVars, portVars>>

VarInitial ==
    /\ objs = <<>>
    /\ varserver_vars = <<>>
    /\ next_id = 0
    /\ nRegistered = 0
    /\ proc_runtime = FALSE
    /\ store = [id \in 0..(MaxVars - 1) |-> 0]
    /\ result = Returned(0)

(***************************************************************************)
(* Ports (ports.py): the connections between the ports of the processes.   *)
(***************************************************************************)
\* The ports connected in one list of a port, at most.
MaxConn == 2

\* The ports of the processes: one of every kind, of one shape, and an
\* InPort of another shape.
Ports == 1..5
PortKind(p) ==
    CASE p = 1 -> "OutPort"
      [] p = 2 -> "InPort"
      [] p = 3 -> "RefPort"
      [] p = 4 -> "VarPort"
      [] OTHER -> "InPort"
PortShape(p) == IF p = 5 THEN <<2>> ELSE <<1>>

\* What the user passes as `ports`: a port, or a list of ports.
PortLists == UNION {[1..n -> Ports] : n \in 1..MaxConn}

\* isinstance(p, port_type) along the class hierarchy of lines 215-230,
\* 253, 285, 324 and 432
isinstance(p, port_type) ==
    \/ PortKind(p) = port_type
    \/ port_type = "AbstractIOPort" /\ PortKind(p) \in {"InPort", "OutPort"}
    \/ port_type = "AbstractRVPort" /\ PortKind(p) \in {"RefPort", "VarPort"}

\* An InPort.connect that takes any AbstractIOPort.
connect_type_any_io(k) ==
    CASE k = "OutPort" -> "AbstractIOPort"
      [] k = "InPort" -> "AbstractIOPort"
      [] k = "RefPort" -> "AbstractRVPort"
      [] k = "VarPort" -> "VarPort"

\* The port_type that connect() of a port of kind k validates against
connect_type(k) ==
    CASE k = "OutPort" -> "AbstractIOPort"
      [] k = "InPort" -> "InPort"
      [] k = "RefPort" -> "AbstractRVPort"
      [] k = "VarPort" -> "VarPort"

\* The port_type that connect_from() of a port of kind k validates against
connect_from_type(k) ==
    CASE k = "OutPort" -> "OutPort"
      [] k = "InPort" -> "AbstractIOPort"
      [] k = "RefPort" -> "RefPort"
      [] k = "VarPort" -> "AbstractRVPort"

Elems(l) == {l[i] : i \in DOMAIN l}

\* is_disjoint
is_disjoint(a, b) == Elems(a) \cap Elems(b) = {}

\* AbstractPort._validate_ports, with the defaults of its flags; the
\* TypeError of RefPort and VarPort (lines 353-360, 371-377, 468-474,
\* 486-492) is raised for the same ports.
validate_ports(self, ports, port_type) ==
    \A i \in DOMAIN ports :
        /\ isinstance(ports[i], port_type)
        /\ PortShape(self) = PortShape(ports[i])

\* "for p in ports: p._add_inputs([self])" over the lists conn, from
\* ports[i] on, up to the first p that raises DuplicateConnectionError.
RECURSIVE add_each(_, _, _, _)
add_each(conn, ports, self, i) ==
    IF i > Len(ports) \/ self \in Elems(conn[ports[i]])
    THEN conn
    ELSE add_each([conn EXCEPT ![ports[i]] = Append(@, self)],
                  ports, self, i + 1)

\* _add_outputs or _add_inputs of self, then the loop over ports: `mine`
\* are the lists self is added to, `theirs` the lists of the ports.
connect_lists(mine, theirs, self, ports) ==
    IF is_disjoint(mine[self], ports)
    THEN [mine |-> [mine EXCEPT ![self] = @ \o ports],
          theirs |-> add_each(theirs, ports, self, 1)]
    ELSE [mine |-> mine, theirs |-> theirs]

\* No list grows beyond MaxConn.
Fits(conn) == \A p \in Ports : Len(conn[p]) <= MaxConn

\* AbstractPort._connect_forward, called by connect() of the four kinds
connect(self, ports) ==
    /\ IF validate_ports(self, ports, connect_type(PortKind(self)))
       THEN LET r == connect_lists(out_connections, in_connections,
                                   self, ports)
            IN /\ out_connections' = r.mine
               /\ in_connections' = r.theirs
       ELSE UNCHANGED <<in_connections, out_connections>>
    /\ Fits(out_connections') /\ Fits(in_connections')
    /\ UNCHANGED <<ctlVars, varVars>>

\* AbstractPort._connect_backward, called by connect_from() of the four
\* kinds
connect_from(self, ports) ==
    /\ IF validate_ports(self, ports, connect_from_type(PortKind(self)))
       THEN LET r == connect_lists(in_connections, out_connections,
                                   self, ports)
            IN /\ in_connections' = r.mine
               /\ out_connections' = r.theirs
       ELSE UNCHANGED <<in_connections, out_connections>>
    /\ Fits(out_connections') /\ Fits(in_connections')
    /\ UNCHANGED <<ctlVars, varVars>>

PortInitial ==
    /\ in_connections = [p \in Ports |-> <<>>]
    /\ out_connections = [p \in Ports |-> <<>>]

(***************************************************************************)
(* The system.                                                             *)
(***************************************************************************)
\* Every actor of a synchronization domain is of the same ProcessModel kind.
Kinds ==
    {k \in [Actors -> ModelKinds] :
        \A a, b \in Actors : ServiceOf(a) = ServiceOf(b) => k[a] = k[b]}

Init ==
    /\ is_initialized = FALSE
    /\ is_started = FALSE
    /\ is_running = FALSE
    /\ current_ts = 0
    /\ num_steps = NoNumSteps
    /\ messaging_infrastructure = "none"
    /\ ports_joined = {}
    /\ rtPc = "idle"
    /\ rtIdx = 0
    /\ rtNum = 0
    /\ rtBuf = <<>>
    /\ call = NoCall
    /\ rtResult = "none"
    /\ sent = Empty(Services)
    /\ rcvd = Zero(Services)
    /\ resp = [s \in Services |-> NoResp]
    /\ nCalls = 0
    /\ stepsIssued = 0
    /\ runtime_to_service_cmd = Empty(Services)
    /\ service_to_runtime_ack = Empty(Services)
    /\ runtime_to_service_req = Empty(Services)
    /\ service_to_runtime_data = Empty(Services)
    /\ runtime_to_service_data = Empty(Services)
    /\ service_to_process_cmd = Empty(Actors)
    /\ process_to_service_ack = Empty(Actors)
    /\ service_to_process_req = Empty(Actors)
    /\ process_to_service_data = Empty(Actors)
    /\ service_to_process_data = Empty(Actors)
    /\ svcPc = [s \in Services |-> "await"]
    /\ svcIdx = [s \in Services |-> 1]
    /\ svcSteps = Zero(Services)
    /\ svcPhase = [s \in Services |-> SPK]
    /\ svcReq = [s \in Services |-> NoReq]
    /\ kind \in Kinds
    /\ actPc = [a \in Actors |-> "poll"]
    /\ actIdx = Zero(Actors)
    /\ actNum = Zero(Actors)
    /\ actTs = Zero(Actors)
    /\ var = VarInit
    /\ nPhaseRecv = Zero(Actors)
    /\ nDoneSent = Zero(Actors)
    /\ lastPhase = [a \in Actors |-> HOST]
    /\ nPauseRecv = Zero(Actors)
    /\ nPausedSent = Zero(Actors)
    /\ nTerminatedSent = Zero(Actors)
    /\ act_ports_joined = [a \in Actors |-> {}]
    /\ callbacks = Empty(Actors)
    /\ VarInitial
    /\ PortInitial

\* The calls of the user on the Runtime
User ==
    \/ Initialize
    \/ \E cond \in RunConditions : Start(cond)
    \/ Wait
    \/ Pause
    \/ Stop
    \/ \E v \in VarIds : GetVar(v)
    \/ \E v \in VarIds : \E x \in ValuesFor(v) : SetVar(v, x, NoIdx)

Runtime ==
    \/ RunSend
    \/ RunRecv
    \/ WaitRecv
    \/ PauseSend
    \/ PauseRecv
    \/ StopSend
    \/ StopRecv
    \/ GetVarSend
    \/ GetVarRecv
    \/ SetVarSend
    \/ SetVarData

Service(s) ==
    \/ SvcRecvCmd(s)
    \/ SvcSendPhase(s)
    \/ SvcGatherDone(s)
    \/ SvcSendPause(s)
    \/ SvcGatherPaused(s)
    \/ SvcSendStop(s)
    \/ SvcGatherTerminated(s)
    \/ SvcAck(s)
    \/ SvcRecvReq(s)
    \/ SvcFwdReq(s)
    \/ SvcGetRecv(s)
    \/ SvcGetSend(s)
    \/ SvcSetRecv(s)
    \/ SvcSetSend(s)

Actor(a) ==
    \/ IllegalCmd(a)
    \/ Spike(a)
    \/ PreMgmt(a)
    \/ Lrn(a)
    \/ PostMgmt(a)
    \/ HandleVarPorts(a)
    \/ ActorPause(a)
    \/ ActorStop(a)
    \/ ProbeReq(a)
    \/ ProbeCmd(a)
    \/ HandleGetVar(a)
    \/ GetVarData(a)
    \/ HandleSetVar(a)
    \/ SetVarRecv(a)

Next ==
    \/ User
    \/ Runtime
    \/ \E s \in Services : Service(s)
    \/ \E a \in Actors : Actor(a)

Spec == Init /\ [][Next]_vars

(***************************************************************************)
(* The paused system: the state initialize(), start(RunContinuous()) and   *)
(* pause() lead to when every ProcessModel is an AbstractPyProcessModel,   *)
(* with every actor in its get/set loop, having found its request port     *)
(* empty. The user goes on from there with set_var, get_var, start and     *)
(* stop.                                                                   *)
(***************************************************************************)
PausedCall ==
    [op |-> "pause", cond |-> NoCond, var_id |-> NoVar, value |-> <<>>,
     idx |-> NoIdx, ts0 |-> 0,
     started0 |-> TRUE, running0 |-> TRUE, settled0 |-> TRUE,
     prev |-> [op |-> "start", cond |-> RunContinuous, var_id |-> NoVar,
               buf |-> <<>>, idx |-> NoIdx,
               running0 |-> FALSE, settled0 |-> TRUE]]

PausedWith(vs) ==
    /\ is_initialized = TRUE
    /\ is_started = TRUE
    /\ is_running = FALSE
    /\ current_ts = 0
    /\ num_steps = NoNumSteps
    /\ messaging_infrastructure = "started"
    /\ ports_joined = {}
    /\ rtPc = "idle"
    /\ rtIdx = 0
    /\ rtNum = 0
    /\ rtBuf = <<>>
    /\ call = PausedCall
    /\ rtResult = "returned"
    /\ sent = [s \in Services |-> <<PAUSE>>]
    /\ rcvd = [s \in Services |-> 1]
    /\ resp = [s \in Services |-> PAUSED]
    /\ runtime_to_service_cmd = Empty(Services)
    /\ service_to_runtime_ack = Empty(Services)
    /\ runtime_to_service_req = Empty(Services)
    /\ service_to_runtime_data = Empty(Services)
    /\ runtime_to_service_data = Empty(Services)
    /\ service_to_process_cmd = Empty(Actors)
    /\ process_to_service_ack = Empty(Actors)
    /\ service_to_process_req = Empty(Actors)
    /\ process_to_service_data = Empty(Actors)
    /\ service_to_process_data = Empty(Actors)
    /\ svcPc = [s \in Services |-> "await"]
    /\ svcIdx = [s \in Services |-> 1]
    /\ svcSteps = Zero(Services)
    /\ svcPhase = [s \in Services |-> SPK]
    /\ svcReq = [s \in Services |-> NoReq]
    /\ kind = [a \in Actors |-> "AbstractPy"]
    /\ actPc = [a \in Actors |-> "probe_cmd"]
    /\ actIdx = Zero(Actors)
    /\ actNum = Zero(Actors)
    /\ actTs = Zero(Actors)
    /\ var = vs
    /\ nPhaseRecv = Zero(Actors)
    /\ nDoneSent = Zero(Actors)
    /\ lastPhase = [a \in Actors |-> HOST]
    /\ nPauseRecv = [a \in Actors |-> 1]
    /\ nPausedSent = [a \in Actors |-> 1]
    /\ nTerminatedSent = Zero(Actors)
    /\ act_ports_joined = [a \in Actors |-> {}]
    /\ callbacks = Empty(Actors)
    /\ VarInitial
    /\ PortInitial

Paused == PausedWith(VarInit)

\* The calls the user makes on the paused system.
PausedCalls == 2

InitPaused ==
    /\ Paused
    /\ nCalls = MaxCalls - PausedCalls
    /\ stepsIssued = 0

UserPaused ==
    \/ \E v \in VarIds : \E x \in ValuesFor(v) : SetVar(v, x, NoIdx)
    \/ \E v \in VarIds : GetVar(v)
    \/ \E cond \in RunConditions : Start(cond)
    \/ Stop

\* With no pause and no wait, the steps of those calls are left out.
RuntimePaused ==
    \/ RunSend
    \/ StopSend
    \/ StopRecv
    \/ GetVarSend
    \/ GetVarRecv
    \/ SetVarSend
    \/ SetVarData

\* No PAUSE arrives, and no actor answers a phase command.
ServicePaused(s) ==
    \/ SvcRecvCmd(s)
    \/ SvcSendPhase(s)
    \/ SvcSendStop(s)
    \/ SvcGatherTerminated(s)
    \/ SvcAck(s)
    \/ SvcRecvReq(s)
    \/ SvcFwdReq(s)
    \/ SvcGetRecv(s)
    \/ SvcGetSend(s)
    \/ SvcSetRecv(s)
    \/ SvcSetSend(s)

\* The steps of an AbstractPyProcessModel.
ActorPaused(a) ==
    \/ IllegalCmd(a)
    \/ ActorStop(a)
    \/ ProbeReq(a)
    \/ ProbeCmd(a)
    \/ HandleGetVar(a)
    \/ GetVarData(a)
    \/ HandleSetVar(a)
    \/ SetVarRecv(a)

NextPaused ==
    \/ UserPaused
    \/ RuntimePaused
    \/ \E s \in Services : ServicePaused(s)
    \/ \E a \in Actors : ActorPaused(a)

SpecPaused == InitPaused /\ [][NextPaused]_vars

(***************************************************************************)
(* The traffic of the Vars on the paused system: the user calls set_var    *)
(* with values of any shape, with and without an index, and get_var.       *)
(***************************************************************************)
\* The calls the user makes there.
SetCalls == 1

InitSet ==
    /\ Paused
    /\ nCalls = MaxCalls - SetCalls
    /\ stepsIssued = 0

\* The calls of the user, and the steps of the Runtime, the Services and
\* the actors that serve them.
NextSet ==
    \/ \E v \in VarIds : \E x \in AnyValues : \E idx \in Indices :
           SetVar(v, x, idx)
    \/ \E v \in VarIds : GetVar(v)
    \/ GetVarSend
    \/ GetVarRecv
    \/ SetVarSend
    \/ SetVarData
    \/ \E s \in Services :
           \/ SvcRecvReq(s)
           \/ SvcFwdReq(s)
           \/ SvcGetRecv(s)
           \/ SvcGetSend(s)
           \/ SvcSetRecv(s)
           \/ SvcSetSend(s)
    \/ \E a \in Actors :
           \/ ProbeReq(a)
           \/ ProbeCmd(a)
           \/ HandleGetVar(a)
           \/ GetVarData(a)
           \/ HandleSetVar(a)
           \/ SetVarRecv(a)

SpecSet == InitSet /\ [][NextSet]_vars

(***************************************************************************)
(* The building of the processes, before any Runtime exists: the user      *)
(* constructs Vars, aliases them, reads and writes them, and connects      *)
(* ports.                                                                  *)
(***************************************************************************)
InitBuild == Init /\ kind = [a \in Actors |-> "PyLoihi"]

NextVar ==
    \/ \E inp \in VarInputs : Var(inp)
    \/ reset_server
    \/ \E a, b \in DOMAIN objs : alias(a, b)
    \/ \E a \in DOMAIN objs : Get(a)
    \/ \E a \in DOMAIN objs : \E x \in Values : Set(a, x)
    \/ run

SpecVar == InitBuild /\ [][NextVar]_vars

NextPorts ==
    \/ \E self \in Ports : \E ports \in PortLists : connect(self, ports)
    \/ \E self \in Ports : \E ports \in PortLists : connect_from(self, ports)

SpecPorts == InitBuild /\ [][NextPorts]_vars

(***************************************************************************)
(* Phase protocol between a Runtime Service and its Process Actors.        *)
(***************************************************************************)
\* The k-th phase command of an actor, counted over all execution steps.
PhaseOf(k) == ((k - 1) % 4) + 1

\* C1: within each Runtime Service and each execution step the actors
\* receive the phase commands in the order SPK, PRE_MGMT, LRN, POST_MGMT,
\* and no actor receives the command of phase k+1 before every actor of
\* its Service has handled the command of phase k and sent its DONE.
C1_PhaseOrder ==
    \A a \in Actors :
        /\ nPhaseRecv[a] > 0 => lastPhase[a] = PhaseOf(nPhaseRecv[a])
        /\ \A b \in ActorsOf(ServiceOf(a)) :
               /\ nPhaseRecv[a] <= nPhaseRecv[b] + 1
               /\ nPhaseRecv[a] <= nDoneSent[b] + 1

\* Actor 1 has received the SPK of the second step, actor 2 of the same
\* Service has answered the POST_MGMT of the first and not received more.
C1_Witness ==
    /\ nPhaseRecv[1] = 5
    /\ lastPhase[1] = SPK
    /\ nPhaseRecv[2] = 4
    /\ nDoneSent[2] = 4

\* C2: a PyLoihiProcessModel actor that accepts SPK, PRE_MGMT, LRN or
\* POST_MGMT sends exactly one DONE on its acknowledgement channel before
\* it receives its next command: at every point it has sent as many DONE
\* as it has accepted phase commands.
C2_OneDonePerPhase ==
    \A a \in Actors :
        kind[a] = "PyLoihi" => nDoneSent[a] = nPhaseRecv[a]

\* An actor has accepted and answered all four phases of a step and
\* accepted the next command.
C2_Witness ==
    \E a \in Actors :
        /\ kind[a] = "PyLoihi"
        /\ nPhaseRecv[a] = 5
        /\ nDoneSent[a] = 5

\* C3: an actor that accepts PAUSE or HOST sends exactly one PAUSED on its
\* acknowledgement channel before it services any get/set request, for
\* PyLoihiProcessModel as for plain AbstractPyProcessModel actors: an actor
\* inside the get/set loop has sent one PAUSED per PAUSE or HOST accepted.
GetSetPcs ==
    {"_handle_get_set_var", "probe_cmd", "_handle_get_var", "get_var_send"}

C3_PausedBeforeGetSet ==
    \A a \in Actors :
        actPc[a] \in GetSetPcs => nPausedSent[a] = nPauseRecv[a]

(***************************************************************************)
(* Runs of the Runtime.                                                    *)
(***************************************************************************)
\* The call in progress or last finished is a start(RunSteps(n, blocking))
\* of an initialized Runtime.
IsStepRun(blocking) ==
    /\ call.op = "start"
    /\ call.cond.type = "RunSteps"
    /\ call.cond.blocking = blocking
    /\ is_initialized

\* The call before the one in progress was a start(RunSteps(n, blocking)).
AfterStepRun(blocking) ==
    /\ call.prev.op = "start"
    /\ call.prev.cond.type = "RunSteps"
    /\ call.prev.cond.blocking = blocking

\* The started state a call was made from: not running, with no command
\* and no response of an earlier call outstanding.
FromStarted(c) == ~c.running0 /\ c.settled0

Ended == rtPc = "idle"

\* C4: a blocking StepRun(n) issued from the started state sends n exactly
\* once on every Service command channel, then receives exactly one
\* response from every Service; when all are DONE it returns with
\* current_ts increased by n and the Runtime not running.
C4_BlockingStepRun ==
    IsStepRun(TRUE) /\ FromStarted(call) =>
        /\ \A s \in Services :
               /\ sent[s] \in {<<>>, <<call.cond.num_steps>>}
               /\ rcvd[s] <= 1
               /\ rcvd[s] = 1 =>
                      \A t \in Services : sent[t] = <<call.cond.num_steps>>
        /\ Ended =>
               \A s \in Services :
                   sent[s] = <<call.cond.num_steps>> /\ rcvd[s] = 1
        /\ Ended /\ (\A s \in Services : resp[s] = DONE) =>
               /\ rtResult = "returned"
               /\ current_ts = call.ts0 + call.cond.num_steps
               /\ ~is_running

\* A blocking StepRun(2) has returned.
C4_Witness ==
    /\ IsStepRun(TRUE)
    /\ FromStarted(call)
    /\ call.cond.num_steps = 2
    /\ Ended
    /\ rtResult = "returned"
    /\ current_ts = 2
    /\ \A s \in Services : resp[s] = DONE

\* C5: when a blocking StepRun(n) returns every actor has completed n SPK
\* phases and all four phases of step n, so a get_var issued immediately
\* afterwards without a pause returns the value the Var holds after step n:
\* the get_var is never left with nothing in the system able to move.
C5_GetVarAfterBlockingRun ==
    /\ IsStepRun(TRUE) /\ FromStarted(call) /\ Ended
          /\ rtResult = "returned" =>
           \A a \in Actors :
               /\ actTs[a] = current_ts
               /\ nDoneSent[a] = 4 * current_ts
    /\ call.op = "get_var" /\ AfterStepRun(TRUE) /\ ~Ended => ENABLED Next

\* C6: a non-blocking StepRun(n) returns with the Runtime running and
\* without receiving any acknowledgement; a later wait() receives exactly
\* one DONE from every Service, increases current_ts by n and leaves the
\* Runtime not running (the StepRun issued from the started state).
C6_NonBlockingStepRun ==
    /\ IsStepRun(FALSE) /\ Ended =>
           /\ rtResult = "returned"
           /\ is_running
           /\ \A s \in Services :
                  sent[s] = <<call.cond.num_steps>> /\ rcvd[s] = 0
    /\ call.op = "wait" /\ AfterStepRun(FALSE) /\ FromStarted(call.prev)
          /\ call.running0 =>
           /\ \A s \in Services : sent[s] = <<>> /\ rcvd[s] <= 1
           /\ Ended =>
                  /\ rtResult = "returned"
                  /\ \A s \in Services : rcvd[s] = 1 /\ resp[s] = DONE
                  /\ current_ts = call.ts0 + call.prev.cond.num_steps
                  /\ ~is_running

\* A wait() after a non-blocking StepRun(2) has returned.
C6_Witness ==
    /\ call.op = "wait"
    /\ AfterStepRun(FALSE)
    /\ FromStarted(call.prev)
    /\ call.running0
    /\ call.prev.cond.num_steps = 2
    /\ Ended
    /\ rtResult = "returned"
    /\ current_ts = 2

\* C7: the Controller never sends a run token while a previous run is
\* still unacknowledged, so no DONE remains uncollected once the Runtime is
\* not running.
C7_NoRunWhileUnacknowledged ==
    /\ call.op = "start" /\ call.prev.op = "start"
          /\ call.prev.cond.type = "RunSteps"
          /\ (\E s \in Services : sent[s] # <<>>) => ~call.running0
    /\ Ended /\ ~is_running =>
           \A s \in Services : DONE \notin
               {service_to_runtime_ack[s][i] :
                   i \in 1..Len(service_to_runtime_ack[s])}

\* C8: a ContinuousRun issued from the started state sends the
\* continuous-run token on every Service command channel and leaves the
\* Runtime running with current_ts unchanged.
C8_ContinuousRun ==
    /\ call.op = "start"
    /\ call.cond.type = "RunContinuous"
    /\ is_initialized
    /\ FromStarted(call)
    /\ Ended
    => /\ \A s \in Services : Len(sent[s]) = 1
       /\ is_running
       /\ current_ts = call.ts0

C10_PauseDuringStepRun ==
    call.op = "pause" /\ AfterStepRun(FALSE) /\ call.running0 /\ Ended =>
        rtResult = "returned" /\ ~is_running

(***************************************************************************)
(* Teardown: Runtime.stop.                                                 *)
(***************************************************************************)
\* C11: stop() called from started or paused sends exactly one STOP on
\* every command channel, then receives one response from every Service;
\* when all are TERMINATED every list of ports of the Runtime is joined,
\* the message infrastructure is stopped, the call returns, and the Runtime
\* is neither started nor running. No port is joined before the TERMINATED
\* of every Service is in.
C11_Stop ==
    call.op = "stop" /\ call.started0 /\ FromStarted(call) =>
        /\ \A s \in Services :
               /\ sent[s] \in {<<>>, <<STOP>>}
               /\ rcvd[s] <= 1
               /\ rcvd[s] = 1 => \A t \in Services : sent[t] = <<STOP>>
               /\ resp[s] \in {NoResp, TERMINATED}
        /\ ports_joined # {} =>
               \A s \in Services : rcvd[s] = 1 /\ resp[s] = TERMINATED
        /\ Ended =>
               \A s \in Services : sent[s] = <<STOP>> /\ rcvd[s] = 1
        /\ Ended /\ (\A s \in Services : resp[s] = TERMINATED) =>
               /\ rtResult = "returned"
               /\ ports_joined = RuntimePorts
               /\ messaging_infrastructure = "stopped"
               /\ ~is_started
               /\ ~is_running

\* A stop() made in the paused state has returned.
C11_Witness ==
    /\ call.op = "stop"
    /\ call.started0
    /\ FromStarted(call)
    /\ call.prev.op = "pause"
    /\ Ended
    /\ rtResult = "returned"
    /\ \A s \in Services : resp[s] = TERMINATED /\ svcPc[s] = "terminated"

\* C12: stop() called in any state from started onward, a non-blocking
\* StepRun still running with its DONE unread included, returns without
\* raising and leaves the Runtime neither started nor running, with every
\* Service terminated.
C12_StopWhileRunning ==
    call.op = "stop" /\ call.started0 /\ call.running0
        /\ AfterStepRun(FALSE) /\ FromStarted(call.prev) /\ Ended =>
        /\ rtResult = "returned"
        /\ ~is_started
        /\ ~is_running
        /\ \A s \in Services : svcPc[s] = "terminated"

\* The Runtime's own attributes and the channels it sends on and reads from.
RuntimeState ==
    <<is_initialized, is_started, is_running, current_ts, num_steps,
      messaging_infrastructure, ports_joined>>

\* A stop() that went through the whole teardown has returned.
StopCompleted ==
    /\ call.op = "stop"
    /\ Ended
    /\ rtResult = "returned"
    /\ ports_joined = RuntimePorts
    /\ ~is_started

\* C13: a second stop() after a completed stop() is a no-op: it sends no
\* STOP, reads no ack port, joins no port, returns without raising and
\* leaves the Runtime's state as the first stop() left it.
C13_SecondStop ==
    [][StopCompleted /\ nCalls' = nCalls + 1 /\ call'.op = "stop" =>
          /\ rtPc' = "idle"
          /\ rtResult' = "returned"
          /\ \A s \in Services : sent'[s] = <<>> /\ rcvd'[s] = 0
          /\ UNCHANGED RuntimeState
          /\ UNCHANGED rtChans]_vars

\* The second of two stop() calls in a row has returned.
C13_Witness ==
    /\ StopCompleted
    /\ call.prev.op = "stop"
    /\ ~call.started0
    /\ \A s \in Services : sent[s] = <<>> /\ rcvd[s] = 0

\* C14: stop() called before start(), on an initialized Runtime and on one
\* never initialized, returns without raising and leaves the Runtime
\* stopped: not started, not running, its message infrastructure stopped.
C14_StopBeforeStart ==
    call.op = "stop" /\ ~call.started0 /\ call.prev.op \in {"none", "initialize"}
        /\ Ended =>
        /\ rtResult = "returned"
        /\ ~is_started
        /\ ~is_running
        /\ messaging_infrastructure = "stopped"

\* C15: once a stop() has completed, no later start, wait, pause, get_var
\* or set_var sends a token on a channel of the Runtime or brings the
\* Runtime back to started or running.
C15_StoppedIsFinal ==
    ports_joined = RuntimePorts =>
        /\ ~is_started
        /\ ~is_running
        /\ call.op # "stop" => \A s \in Services : sent[s] = <<>>

(***************************************************************************)
(* Calls the Runtime declines.                                             *)
(***************************************************************************)
\* C16: start() on a Runtime that has not been initialized returns at once,
\* has sent no token on any channel, and leaves is_started, is_running and
\* current_ts as they were and the Runtime uninitialized.
C16_StartUninitialized ==
    call.op = "start" /\ ~is_initialized =>
        /\ Ended
        /\ rtResult = "returned"
        /\ \A s \in Services :
               /\ sent[s] = <<>>
               /\ runtime_to_service_cmd[s] = <<>>
               /\ runtime_to_service_req[s] = <<>>
               /\ runtime_to_service_data[s] = <<>>
        /\ is_started = call.started0
        /\ is_running = call.running0
        /\ current_ts = call.ts0
        /\ ~is_started

\* A start(RunSteps) on the Runtime as constructed has returned.
C16_Witness ==
    /\ call.op = "start"
    /\ call.cond.type = "RunSteps"
    /\ ~is_initialized
    /\ Ended
    /\ rtResult = "returned"

\* C17: get_var and set_var fail when the Runtime is not started and when
\* it is running (during a RunContinuous and after stop() too); the failing
\* call has sent nothing on a request or data channel and leaves the
\* Runtime's state and channels as they were.
C17_GetSetDeclined ==
    [][/\ nCalls' = nCalls + 1
       /\ call'.op \in {"get_var", "set_var"}
       /\ ~is_started \/ is_running
       => /\ rtPc' = "idle"
          /\ rtResult' = "raised"
          /\ UNCHANGED RuntimeState
          /\ UNCHANGED rtChans]_vars

\* A set_var made during a RunContinuous has failed.
C17_Witness ==
    /\ call.op = "set_var"
    /\ call.started0
    /\ call.running0
    /\ call.prev.op = "start"
    /\ call.prev.cond.type = "RunContinuous"
    /\ Ended
    /\ rtResult = "raised"
    /\ \A s \in Services :
           runtime_to_service_req[s] = <<>> /\ runtime_to_service_data[s] = <<>>

(***************************************************************************)
(* Variable access on the paused system.                                   *)
(***************************************************************************)
\* The call in progress follows an accepted set_var(v, x).
AfterSetVar ==
    /\ call.prev.op = "set_var"
    /\ call.prev.var_id # NoVar
    /\ call.prev.idx = NoIdx
    /\ Len(call.prev.buf) = NumItems(call.prev.var_id)

\* C18: with the Runtime started and not running, set_var(v, x) with x of
\* the Var's full shape followed at once by get_var(v) returns x, for a Var
\* held as an array and for one held as a scalar integer: the get_var ends
\* with x in its buffer, and until it ends something in the system can move.
C18_SetThenGet ==
    call.op = "get_var" /\ AfterSetVar /\ call.var_id = call.prev.var_id =>
        /\ Ended => rtResult = "returned" /\ rtBuf = call.prev.buf
        /\ ~Ended => ENABLED NextPaused

\* The actor has left its get/set loop.
LeftGetSetLoop(a) == actPc[a] \in {"poll", "ValueError", "exited"}

\* C19: a set_var that returned before the next command was issued is
\* applied to the actor's Var before the actor leaves its get/set loop
\* for that command, and the actor does not leave the loop with the
\* request or its data still queued on its ports.
C19_SetBeforeNextCommand ==
    call.op \in {"start", "stop"} /\ AfterSetVar =>
        LET a == ModelId(call.prev.var_id)
        IN LeftGetSetLoop(a) =>
               /\ var[a].val = call.prev.buf
               /\ service_to_process_req[a] = <<>>
               /\ service_to_process_data[a] = <<>>

(***************************************************************************)
(* Teardown of a Process Actor.                                            *)
(***************************************************************************)
\* C20: on STOP an actor sends exactly one TERMINATED, joins all its ports
\* and leaves its loop; once it has left, it receives nothing from its
\* command, request and data ports and runs no handler: its position, its
\* time step, its Var and its counts of commands accepted and responses
\* sent stay as they are.
C20_ActorStop ==
    [][\A a \in Actors :
          /\ nTerminatedSent'[a] <= 1
          /\ nTerminatedSent'[a] = 1 <=> actPc'[a] = "exited"
          /\ actPc'[a] = "exited" => act_ports_joined'[a] = ActorPorts
          /\ actPc[a] = "exited" =>
                 /\ actPc'[a] = "exited"
                 /\ Len(service_to_process_cmd'[a]) >= Len(service_to_process_cmd[a])
                 /\ Len(service_to_process_req'[a]) >= Len(service_to_process_req[a])
                 /\ Len(service_to_process_data'[a]) >= Len(service_to_process_data[a])
                 /\ process_to_service_ack'[a] = process_to_service_ack[a]
                    \/ process_to_service_ack'[a] = Tail(process_to_service_ack[a])
                 /\ actTs'[a] = actTs[a]
                 /\ var'[a] = var[a]
                 /\ nPhaseRecv'[a] = nPhaseRecv[a]
                 /\ nPauseRecv'[a] = nPauseRecv[a]
                 /\ nDoneSent'[a] = nDoneSent[a]
                 /\ nPausedSent'[a] = nPausedSent[a]]_vars

\* Every actor has run a step and then left its loop on STOP, and the
\* Runtime has made a call since.
C20_Witness ==
    /\ \A a \in Actors :
           actPc[a] = "exited" /\ nPhaseRecv[a] > 0 /\ nTerminatedSent[a] = 1
    /\ call.prev.op = "stop"


(***************************************************************************)
(* Termination of the actor. Every Process Actor and every Runtime Service *)
(* is a process of its own that runs its loop whatever the others do, and  *)
(* a call of the Runtime goes on once entered; the user is free never to   *)
(* call again.                                                             *)
(***************************************************************************)
Fairness ==
    /\ WF_vars(RuntimePaused)
    /\ \A s \in Services : WF_vars(ServicePaused(s))
    /\ \A a \in Actors : WF_vars(ActorPaused(a))

\* A ProcessModel may hold a Var as any Python object: here actor 2 holds
\* a float.
VarFloat == [VarInit EXCEPT ![2] = [type |-> "float", val |-> <<1>>]]

InitFair ==
    /\ PausedWith(VarFloat)
    /\ nCalls = MaxCalls - PausedCalls
    /\ stepsIssued = 0

SpecFair == InitFair /\ [][NextPaused]_vars /\ Fairness

\* The loops of the actor: the poll of _run, the get/set loop of _pause
\* and the loop of _handle_var_ports.
ActorLoops ==
    {"poll", "_handle_get_set_var", "probe_cmd", "_handle_var_ports"}

StopQueued(a) ==
    \E i \in DOMAIN service_to_process_cmd[a] :
        service_to_process_cmd[a][i] = STOP

\* C21: with callbacks that return, an actor in one of its loops (the poll
\* of _run, the get/set loop, the loop of the reference ports) that has
\* STOP queued on its command channel eventually sends TERMINATED and
\* exits.
C21_StopTerminates ==
    \A a \in Actors :
        (StopQueued(a) /\ actPc[a] \in ActorLoops) ~>
            (actPc[a] = "exited" /\ nTerminatedSent[a] = 1)

(***************************************************************************)
(* Errors: unexpected responses and raising callbacks.                     *)
(***************************************************************************)
\* The call ended by raising on a response that was not the DONE it
\* awaited.
UnexpectedResponse ==
    /\ Ended
    /\ rtResult = "raised"
    /\ \E s \in Services : resp[s] \notin {NoResp, DONE}

\* C23: when a blocking StepRun or a wait() receives a response other than
\* DONE, the Controller raises and tears down: STOP has been sent to every
\* Service, the ports of the Controller are joined, and the Controller is
\* neither running nor started.
C23_UnexpectedResponse ==
    (IsStepRun(TRUE) \/ call.op = "wait") /\ UnexpectedResponse =>
        /\ \A s \in Services : \E i \in DOMAIN sent[s] : sent[s][i] = STOP
        /\ ports_joined = RuntimePorts
        /\ ~is_running
        /\ ~is_started


\* _spike, _pre_mgmt, _lrn, _post_mgmt (model.py 221-248) with a callback
\* or guard that raises: no handler and no line of _run (148-162) catches
\* the exception, which ends the actor. _spike has counted the time step
\* before run_spk is called.
CallbackRaises(a) ==
    /\ \E h \in PhaseHandlers : Dispatch(a, h)
    /\ actTs' = [actTs EXCEPT ![a] =
           IF Peek(service_to_process_cmd, a) = SPK THEN @ + 1 ELSE @]
    /\ actPc' = [actPc EXCEPT ![a] = "Exception"]
    /\ UNCHANGED <<rtVars, rtChans, process_to_service_ack,
                   service_to_process_req, process_to_service_data,
                   service_to_process_data, svcVars, kind, actIdx, actNum,
                   var, nDoneSent, nPausedSent, nTerminatedSent,
                   act_ports_joined, buildVars>>

\* The runs of a system whose callbacks may raise: the user initializes
\* and starts runs; the steps of the other calls are left out.
NextRaising ==
    \/ Initialize
    \/ \E cond \in RunConditions : Start(cond)
    \/ RunSend
    \/ RunRecv
    \/ \E s \in Services :
           SvcRecvCmd(s) \/ SvcSendPhase(s) \/ SvcGatherDone(s) \/ SvcAck(s)
    \/ \E a \in Actors :
           \/ IllegalCmd(a)
           \/ Spike(a)
           \/ PreMgmt(a)
           \/ Lrn(a)
           \/ PostMgmt(a)
           \/ HandleVarPorts(a)
           \/ CallbackRaises(a)

SpecRaising == Init /\ [][NextRaising]_vars

\* C22: when a phase callback or guard of an actor has raised, the actor
\* has sent TERMINATED on its ack channel, so that its Service, waiting
\* for the response to that phase, finds a response to read.
C22_CallbackRaises ==
    \A a \in Actors :
        actPc[a] = "Exception" /\ svcPc[ServiceOf(a)] = "phase_recv" =>
            /\ nTerminatedSent[a] = 1
            /\ Probe(process_to_service_ack, a)


(***************************************************************************)
(* Vars: aliases and the registry.                                         *)
(***************************************************************************)
\* The Var the alias chain of a ends in, None when more than n links lead
\* to no end.
RECURSIVE TerminalOf(_, _)
TerminalOf(a, n) ==
    IF objs[a].aliased_var = None
    THEN a
    ELSE IF n = 0 THEN None ELSE TerminalOf(objs[a].aliased_var, n - 1)

Registered(a) == \E i \in DOMAIN varserver_vars : varserver_vars[i] = a

\* C24: once a.alias(b) has succeeded, a.get() returns (or raises) what
\* b.get() does and a.set(x) does what b.set(x) does; where the chain of
\* aliases ends in a terminal Var, of whatever length the chain, the id
\* asked of the runtime is that of the terminal Var, which is not the id of
\* a when both are in the registry.
C24_AliasDelegates ==
    \A a \in DOMAIN objs :
        LET b == objs[a].aliased_var
            t == TerminalOf(a, MaxVars)
        IN b # None =>
            /\ get(a, RecursionLimit) = get(b, RecursionLimit)
            /\ \A x \in Values :
                   set(a, x, RecursionLimit) = set(b, x, RecursionLimit)
            /\ t # None /\ proc_runtime =>
                /\ get(a, RecursionLimit).var_id = objs[t].id
                /\ \A x \in Values :
                       /\ set(a, x, RecursionLimit).var_id = objs[t].id
                       /\ set(a, x, RecursionLimit).store =
                              [store EXCEPT ![objs[t].id] = x]
                /\ Registered(a) /\ Registered(t) => objs[t].id # objs[a].id

\* A chain of two aliases whose terminal Var was set to 1, read back
\* through the head of the chain.
C24_Witness ==
    \E a, b, c \in DOMAIN objs :
        /\ a # b /\ b # c /\ a # c
        /\ objs[a].aliased_var = b
        /\ objs[b].aliased_var = c
        /\ objs[c].aliased_var = None
        /\ proc_runtime
        /\ store[objs[c].id] = 1
        /\ get(a, RecursionLimit).value = 1
        /\ result = Returned(1)


\* C25: after any calls of alias(), every Var with an alias target has the
\* shape and the shareable flag of its target, and the process of the
\* target is a strict sub-process of its own, as validate_alias demands.
C25_AliasTargets ==
    \A a \in DOMAIN objs :
        LET b == objs[a].aliased_var
        IN b # None =>
            /\ objs[a].shape = objs[b].shape
            /\ objs[a].shareable = objs[b].shareable
            /\ objs[a].process # objs[b].process
            /\ is_sub_proc_of(objs[b].process, objs[a].process)
            /\ validate_alias(a) = "ok"

\* C26: after any calls of alias(), no chain of aliases leads back into
\* itself: the chain of every Var ends in a Var without alias target, and
\* get() and set() return.
C26_AliasAcyclic ==
    \A a \in DOMAIN objs :
        /\ TerminalOf(a, MaxVars) # None
        /\ get(a, RecursionLimit).raised # "RecursionError"
        /\ \A x \in Values : set(a, x, RecursionLimit).raised # "RecursionError"


\* C30: between two resets register() returns strictly increasing, hence
\* pairwise distinct, ids, one for every Var constructed, and appends the
\* Var to the registry: the registry holds the Vars constructed since the
\* last reset_server() in the order of their construction, num_vars is the
\* number of register calls since then, and 0 when there was none.
C30_Registry ==
    /\ num_vars = nRegistered
    /\ nRegistered = 0 => num_vars = 0
    /\ num_vars <= Len(objs)
    /\ \A i \in DOMAIN varserver_vars :
           varserver_vars[i] = Len(objs) - num_vars + i
    /\ \A i, j \in DOMAIN varserver_vars :
           i < j => objs[varserver_vars[i]].id < objs[varserver_vars[j]].id
    /\ \A i \in DOMAIN varserver_vars : objs[varserver_vars[i]].id < next_id

\* One Var registered before a reset_server(), two after.
C30_Witness ==
    /\ Len(objs) = 3
    /\ num_vars = 2
    /\ nRegistered = 2
    /\ objs[2].id < objs[3].id
    /\ objs[1].id = objs[2].id


(***************************************************************************)
(* Ports: the connection graph.                                            *)
(***************************************************************************)
\* The edges of the graph: b is in a.out_connections, or a is in
\* b.in_connections.
Edge(a, b) ==
    \/ b \in Elems(out_connections[a])
    \/ a \in Elems(in_connections[b])

AllowedEdges ==
    {<<"OutPort", "InPort">>, <<"OutPort", "OutPort">>,
     <<"InPort", "InPort">>, <<"RefPort", "VarPort">>,
     <<"RefPort", "RefPort">>, <<"VarPort", "VarPort">>}

\* C27: after any calls of connect and connect_from on InPorts, OutPorts,
\* RefPorts and VarPorts, every edge goes Out->In, Out->Out, In->In,
\* Ref->Var, Ref->Ref or Var->Var: none joins a Ref/Var port with an In/Out
\* port, none goes In->Out or Var->Ref.
C27_EdgeKinds ==
    \A a, b \in Ports :
        Edge(a, b) => <<PortKind(a), PortKind(b)>> \in AllowedEdges

\* An edge of every allowed kind has been made.
C27_Witness ==
    \A k \in AllowedEdges :
        \E a, b \in Ports :
            /\ <<PortKind(a), PortKind(b)>> = k
            /\ b \in Elems(out_connections[a])
            /\ a \in Elems(in_connections[b])

\* The ports reached from the ports S along at most n edges of
\* out_connections.
RECURSIVE Reached(_, _)
Reached(S, n) ==
    IF n = 0
    THEN S
    ELSE Reached(S \cup UNION {Elems(out_connections[p]) : p \in S}, n - 1)

\* C28: after any successful calls of connect and connect_from the graph
\* of the connections has no directed cycle and no self-loop.
C28_Acyclic ==
    \A p \in Ports :
        p \notin Reached(Elems(out_connections[p]), Cardinality(Ports))

Count(l, p) == Cardinality({i \in DOMAIN l : l[i] = p})

\* C29: after any calls of connect and connect_from, those that raise
\* DuplicateConnectionError and those that name a port twice included, no
\* port occurs twice in a list of connections, and b occurs in
\* a.out_connections as often as a occurs in b.in_connections.
C29_NoDuplicates ==
    \A a, b \in Ports :
        /\ Count(out_connections[a], b) <= 1
        /\ Count(in_connections[a], b) <= 1
        /\ Count(out_connections[a], b) = Count(in_connections[b], a)


(***************************************************************************)
(* The claims on the actor's commands, the traffic of the Vars and the     *)
(* calls made while the Runtime is not running.                            *)
(***************************************************************************)
\* The attributes of the Runtime: its flags, its time step, num_steps and
\* the message infrastructure.
RuntimeAttrs ==
    <<is_initialized, is_started, is_running, current_ts, num_steps,
      messaging_infrastructure, ports_joined>>

\* C40: wait() and pause() called while the Runtime is not running are
\* no-ops: the call returns in the step it is made, sends no token,
\* receives from no ack channel, and leaves current_ts and every flag of
\* the Runtime unchanged.
C40_NotRunningNoOp ==
    [][(/\ nCalls' = nCalls + 1
        /\ call'.op \in {"wait", "pause"}
        /\ ~is_running)
       => /\ rtPc' = "idle"
          /\ rtResult' = "returned"
          /\ sent' = Empty(Services)
          /\ rcvd' = Zero(Services)
          /\ UNCHANGED <<RuntimeAttrs, rtChans>>]_vars

\* A pause() made right after a wait(), both on a started Runtime that was
\* not running, has returned.
C40_Witness ==
    /\ call.op = "pause" /\ ~call.running0 /\ call.started0
    /\ call.prev.op = "wait" /\ ~call.prev.running0
    /\ Ended
    /\ rtResult = "returned"
    /\ is_started /\ ~is_running


\* The command tokens the two kinds of actor have handlers for, and the
\* tokens a command channel can carry.
Handled(k) == {STOP, PAUSE} \cup (IF k = "PyLoihi" THEN SPK..HOST ELSE {})
CmdTokens == -3..6

\* The actor a takes a command from its command channel in this step.
Accepts(a) ==
    /\ actPc[a] = "poll"
    /\ Probe(service_to_process_cmd, a)
    /\ service_to_process_cmd' = Recv(service_to_process_cmd, a)

\* C39: an actor accepts exactly the command tokens it has handlers for,
\* STOP and PAUSE for AbstractPyProcessModel and the phases 1..5 as well
\* for PyLoihiProcessModel. Any other token, the run token 0 among them,
\* is consumed and makes the actor raise an error, with no response sent
\* on the ack channel then or later; no command with a handler does so.
C39_UnknownCommand ==
    [][/\ \A k \in ModelKinds : \A tok \in CmdTokens :
              CmdHandler(k, tok) = "ValueError" <=> tok \notin Handled(k)
       /\ \A a \in Actors :
              /\ Accepts(a) =>
                     IF Peek(service_to_process_cmd, a) \in Handled(kind[a])
                     THEN actPc'[a] # "ValueError"
                     ELSE /\ actPc'[a] = "ValueError"
                          /\ process_to_service_ack'[a] =
                                 process_to_service_ack[a]
              /\ actPc[a] # "ValueError" /\ actPc'[a] = "ValueError" =>
                     Accepts(a)
              /\ actPc[a] = "ValueError" =>
                     /\ actPc'[a] = "ValueError"
                     /\ Len(process_to_service_ack'[a]) <=
                            Len(process_to_service_ack[a])]_vars

\* An AbstractPyProcessModel actor has consumed the phase token SPK, for
\* which it has no handler, and raised; it has sent no response.
C39_Witness ==
    \E a \in Actors :
        /\ kind[a] = "AbstractPy"
        /\ actPc[a] = "ValueError"
        /\ service_to_process_cmd[a] = <<>>
        /\ nDoneSent[a] = 0 /\ nPausedSent[a] = 0 /\ nTerminatedSent[a] = 0
        /\ \E b \in Actors : kind[b] = "PyLoihi" /\ nDoneSent[b] > 0


\* C31: the current_ts of a PyLoihiProcessModel actor always equals the
\* number of SPK commands it has accepted: it starts at 0, the step that
\* accepts an SPK increases it by exactly 1, and no other step, whatever
\* command it accepts (PRE_MGMT, LRN, POST_MGMT, HOST, PAUSE, STOP, GET,
\* SET), changes it.
C31_CurrentTs ==
    /\ \A a \in Actors : actTs[a] = 0
    /\ [][\A a \in Actors :
              actTs'[a] =
                  IF /\ kind[a] = "PyLoihi"
                     /\ Accepts(a)
                     /\ Peek(service_to_process_cmd, a) = SPK
                  THEN actTs[a] + 1
                  ELSE actTs[a]]_vars

\* A PyLoihiProcessModel actor has accepted two SPK commands and all the
\* management phases of the two steps, and its current_ts is 2.
C31_Witness ==
    \E a \in Actors :
        /\ kind[a] = "PyLoihi"
        /\ nPhaseRecv[a] = 8
        /\ lastPhase[a] = POST_MGMT
        /\ actTs[a] = 2


\* C35: every GET that reaches an actor in the get/set loop is answered
\* with num_items and the items whatever the type of the Var, so a get_var
\* that passed its assertions never blocks forever on the data port: the
\* Runtime is never inside get_var with nothing in the system able to move.
C35_GetVarReturns ==
    ~(/\ call.op = "get_var"
      /\ rtPc \in {"get_send", "get_recv", "get_items"}
      /\ ~ENABLED NextPaused)


\* C34: for every GET the actor handles, the items it sends are as many as
\* the num_items it sent first, 1 for an integer Var and the number of
\* elements for an array Var, and get_var takes exactly num_items and that
\* many items: when it returns the actor has left _handle_get_var, the
\* Service has nothing of the answer left to pass on, and the data
\* channels of the answer are empty.
C34_GetVarTokens ==
    /\ \A a \in Actors :
           actPc[a] = "get_var_send" =>
               /\ var[a].type \in IntTypes => Len(var[a].val) = 1
               /\ actIdx[a] <= Len(var[a].val)
    /\ call.op = "get_var" /\ call.var_id # NoVar /\ Ended =>
           LET v == call.var_id
           IN /\ rtResult = "returned"
              /\ rtNum = IF var[v].type \in IntTypes
                         THEN 1
                         ELSE Len(var[v].val)
              /\ Len(rtBuf) = rtNum
              /\ actPc[v] # "get_var_send"
              /\ svcPc[RuntimeSrvId(v)] \notin {"get_recv", "get_send"}
              /\ process_to_service_data[v] = <<>>
              /\ service_to_runtime_data[RuntimeSrvId(v)] = <<>>

\* A get_var on the array Var of two elements has returned two items, and
\* before it a get_var on an integer Var had returned.
C34_Witness ==
    /\ call.op = "get_var" /\ call.var_id = 1
    /\ Ended
    /\ rtNum = 2 /\ Len(rtBuf) = 2
    /\ call.prev.op = "get_var" /\ call.prev.var_id = 3
    /\ Len(call.prev.buf) = 1


\* The set_var of the call has returned and the SET it sent has been
\* handled by the actor of the Var: the Service has passed on the request
\* and its data, and the actor has taken the request and is back in its
\* get/set loop.
SetHandled ==
    /\ call.op = "set_var" /\ call.var_id # NoVar
    /\ Ended /\ rtResult = "returned"
    /\ LET a == ModelId(call.var_id)
           s == RuntimeSrvId(call.var_id)
       IN /\ runtime_to_service_req[s] = <<>>
          /\ svcPc[s] = "await"
          /\ service_to_process_req[a] = <<>>
          /\ actPc[a] \in {"_handle_get_set_var", "probe_cmd"}

\* C36: an actor that handles a SET takes from its data channel exactly
\* num_items and the num_items items the Runtime sent, for every num_items
\* and every size of the Var: once the SET is handled no token of it is
\* left on the data channels.
C36_SetConsumed ==
    SetHandled =>
        /\ runtime_to_service_data[RuntimeSrvId(call.var_id)] = <<>>
        /\ service_to_process_data[ModelId(call.var_id)] = <<>>

\* C37: a SET on an array Var with num_items smaller than the number of
\* elements of the Var overwrites exactly the first num_items elements and
\* leaves the others unchanged; in particular set_var(v, value, idx)
\* writes value[idx] into the leading elements.
C37_PartialSet ==
    /\ SetHandled
    /\ VarInit[call.var_id].type = "ndarray"
    /\ InRange(call.value, call.idx)
    => LET old == VarInit[call.var_id].val
           new == IF call.idx = NoIdx
                  THEN call.value
                  ELSE Take(call.value, call.idx)
       IN Len(new) < Len(old) =>
              var[call.var_id].val =
                  new \o SubSeq(old, Len(new) + 1, Len(old))


(***************************************************************************)
(* The callbacks of the actor.                                             *)
(***************************************************************************)
MgmtPhases == {PRE_MGMT, LRN, POST_MGMT}

\* The PyLoihiProcessModel actor a takes the phase command ph in this step.
AcceptsPhase(a, ph) ==
    /\ kind[a] = "PyLoihi"
    /\ Accepts(a)
    /\ Peek(service_to_process_cmd, a) = ph

\* C32: in PRE_MGMT, LRN and POST_MGMT the callback of the phase
\* (run_pre_mgmt, run_lrn, run_post_mgmt) is invoked exactly once if the
\* guard of the phase returns true and not at all otherwise, and DONE is
\* sent in both cases.
C32_GuardedCallbacks ==
    [][\A a \in Actors : \A ph \in MgmtPhases :
          AcceptsPhase(a, ph) =>
              /\ callbacks'[a] =
                     CASE ph = PRE_MGMT ->
                              IF pre_guard(a)
                              THEN <<"run_pre_mgmt">>
                              ELSE <<>>
                       [] ph = LRN ->
                              IF lrn_guard(a) THEN <<"run_lrn">> ELSE <<>>
                       [] OTHER ->
                              IF post_guard(a)
                              THEN <<"run_post_mgmt">>
                              ELSE <<>>
              /\ process_to_service_ack'[a] =
                     Append(process_to_service_ack[a], DONE)
              /\ nDoneSent'[a] = nDoneSent[a] + 1]_vars

\* Two actors have handled LRN and answered DONE: the one whose guard
\* returned true has invoked run_lrn once, the other has invoked nothing.
C32_Witness ==
    \E a, b \in Actors :
        /\ kind[a] = "PyLoihi" /\ kind[b] = "PyLoihi"
        /\ lastPhase[a] = LRN /\ lastPhase[b] = LRN
        /\ lrn_guard(a) /\ ~lrn_guard(b)
        /\ callbacks[a] = <<"run_lrn">>
        /\ callbacks[b] = <<>>
        /\ nDoneSent[a] = nPhaseRecv[a]
        /\ nDoneSent[b] = nPhaseRecv[b]

\* C33: in PRE_MGMT and POST_MGMT the actor sends DONE before it services
\* any VarPort, and an actor that owns no VarPort skips the loop of
\* _handle_var_ports; the loop is left with the pass that finds a command
\* queued, after every VarPort has been serviced in that pass and with the
\* command still on the port, and can be left whenever one is queued.
C33_VarPortLoop ==
    /\ [](\A a \in Actors :
              actPc[a] = "_handle_var_ports" =>
                  /\ HasVarPorts(a)
                  /\ lastPhase[a] \in {PRE_MGMT, POST_MGMT}
                  /\ ~Invoked(a, "service")
                  /\ Probe(service_to_process_cmd, a) =>
                         ENABLED HandleVarPorts(a))
    /\ [][\A a \in Actors :
              /\ AcceptsPhase(a, PRE_MGMT) \/ AcceptsPhase(a, POST_MGMT) =>
                     /\ process_to_service_ack'[a] =
                            Append(process_to_service_ack[a], DONE)
                     /\ \A i \in DOMAIN callbacks'[a] :
                            callbacks'[a][i] # "service"
                     /\ actPc'[a] = IF HasVarPorts(a)
                                    THEN "_handle_var_ports"
                                    ELSE "poll"
              /\ actPc[a] # "_handle_var_ports"
                 /\ actPc'[a] = "_handle_var_ports" =>
                     AcceptsPhase(a, PRE_MGMT) \/ AcceptsPhase(a, POST_MGMT)
              /\ actPc[a] = "_handle_var_ports"
                 /\ actPc'[a] # "_handle_var_ports" =>
                     /\ Probe(service_to_process_cmd, a)
                     /\ service_to_process_cmd'[a] = service_to_process_cmd[a]
                     /\ actPc'[a] = "poll"
                     /\ callbacks'[a] = Append(callbacks[a], "service")]_vars

\* The actor that owns VarPorts has left the loop of POST_MGMT after a pass
\* over its VarPorts, with the next command still on its port, and an actor
\* that owns none is back at the top of its loop after POST_MGMT.
C33_Witness ==
    \E a, b \in Actors :
        /\ kind[a] = "PyLoihi" /\ kind[b] = "PyLoihi"
        /\ HasVarPorts(a) /\ ~HasVarPorts(b)
        /\ lastPhase[a] = POST_MGMT /\ lastPhase[b] = POST_MGMT
        /\ actPc[a] = "poll" /\ actPc[b] = "poll"
        /\ Invoked(a, "service") /\ ~Invoked(b, "service")
        /\ Probe(service_to_process_cmd, a)

\* C38: between sending PAUSED and handling the next command an
\* AbstractPyProcessModel actor does not invoke run(): not while it is
\* paused, and not after the next command has been queued and before it is
\* handled.
C38_NoRunWhilePaused ==
    \A a \in Actors :
        kind[a] = "AbstractPy" /\ nPausedSent[a] > 0 => ~Invoked(a, "run")

====
